---- MODULE Spec2Model ----
(***************************************************************************)
(* The API performance-testing harness of backend/api_performance:         *)
(* APIPerformanceTester (test_runner.py) as a state machine, with the      *)
(* TestResult summary, compare_runs, the test_api command, and the prompts *)
(* API (backend/prompts) the harness is pointed at.                        *)
(*                                                                         *)
(* Python str values that the code slices or formats are sequences of      *)
(* one-character strings; dict keys are TLA+ strings; a dict is a function *)
(* whose DOMAIN is its key set; Python's None is the value None below.     *)
(***************************************************************************)
EXTENDS Integers, Sequences, FiniteSets, TLC

VARIABLES
    config,         \* self.config: the TestConfig of the tester
    session,        \* self.session: [headers, cookies]
    request_count,  \* self.request_count
    success_count,  \* self.success_count
    error_count,    \* self.error_count
    call,           \* the _make_request call made directly on the tester, if any
    switching,      \* whether the interpreter can switch threads inside `x += 1`
    pc,             \* where run() is on the calling thread
    warm_done,      \* warm-up requests made so far (the two nested warm-up loops)
    seq_done,       \* measured requests made so far by _run_sequential's loops
    results,        \* the local `results` of _run_sequential / _run_concurrent
    pool_size,      \* the executor's max_workers once it is created, 0 before
    futures,        \* the pool's futures, in submission (task list) order
    trace,          \* the requests started so far, in order: <<phase, iteration, index>>
    setup_calls,    \* calls of config.setup_function so far
    teardown_calls, \* calls of config.teardown_function so far
    test_result,    \* the TestResult object: [request_results, summary]
    record,         \* the dict TestResult.to_dict returned last, NoResult before
    comparison,     \* the compare_test_results call made, if any
    command,        \* the test_api command invoked, if any: its options and state
    prompts,        \* the rows of the Prompt table, by id
    next_id,        \* the id the next Prompt row gets
    response        \* the response to the last request to the prompts API

testerVars == <<config, session, request_count, success_count, error_count, switching>>
runVars == <<pc, warm_done, seq_done, results, pool_size, futures, trace,
             setup_calls, teardown_calls>>
reportVars == <<test_result, record, comparison>>
appVars == <<command, prompts, next_id, response>>
vars == <<config, session, request_count, success_count, error_count, call, switching,
          pc, warm_done, seq_done, results, pool_size, futures, trace,
          setup_calls, teardown_calls, test_result, record, comparison,
          command, prompts, next_id, response>>

----------------------------------------------------------------------------
(* Bounds of the model. *)

\* Response bodies run up to ErrorLimit + MaxBodyExtra characters.
MaxBodyExtra == 2

\* len(config.requests) is 1..MaxRequests
MaxRequests == 2

\* config.iterations is 1..MaxIterations
MaxIterations == 2

\* config.warm_up_iterations is 0..MaxWarmUp
MaxWarmUp == 1

\* config.max_workers is 1..MaxWorkers
MaxWorkers == 2

\* a run measures at most MaxTasks requests (iterations * len(requests)), and
\* a concurrent run makes at most as many, the warm-up ones included
MaxTasks == 4

\* ... and at most MaxRacyTasks when the interpreter can switch threads inside
\* an augmented assignment
MaxRacyTasks == 2

----------------------------------------------------------------------------
(* Values. *)

\* Python's None: no str modelled as a sequence of characters equals it.
None == <<"None">>

\* bool(x) of an Optional[str]
Truthy(x) == x # None /\ x # <<>>

\* s[:n]
Prefix(s, n) == SubSeq(s, 1, IF Len(s) < n THEN Len(s) ELSE n)

\* response.text[:500], the error field of a non-2xx outcome
ErrorLimit == 500

\* response.text[:1000], the captured payload of a body that is not JSON
ResponseDataLimit == 1000

\* the sentinel status of a transport failure
TransportFailureStatus == -1

\* f'Bearer {token}'
Bearer(token) == <<"B", "e", "a", "r", "e", "r", " ">> \o token

\* a dict with one more key set: d[k] = v
DictSet(d, k, v) == [x \in DOMAIN d \cup {k} |-> IF x = k THEN v ELSE d[x]]

\* dict.get(k): None when the key is absent
DictGet(d, k) == IF k \in DOMAIN d THEN d[k] ELSE None

EmptyDict == [x \in {} |-> None]

----------------------------------------------------------------------------
(* RequestConfig, TestConfig and the session (test_runner.py 19-58, 143-178) *)

\* The fields of a RequestConfig the tester itself reads; params, data,
\* json_data, auth, timeout, allow_redirects and verify are handed to the
\* transport unread.
RequestConfig(method, endpoint, headers) ==
    [method |-> method, endpoint |-> endpoint, headers |-> headers]

\* the default headers __init__ sets on the session
DefaultHeaders ==
    [h \in {"User-Agent", "Accept"} |->
        IF h = "User-Agent" THEN <<"A", "P", "I", "/", "1">> ELSE <<"j", "s", "o", "n">>]

\* _setup_auth_header: session.headers.update({'Authorization': f'Bearer {token}'})
SetupAuthHeader(headers, token) == DictSet(headers, "Authorization", Bearer(token))

\* __init__: a fresh session (empty cookie jar), default headers, and the
\* Authorization header when config.auth_token is truthy
NewSession(cfg) ==
    [headers |-> IF Truthy(cfg.auth_token)
                 THEN SetupAuthHeader(DefaultHeaders, cfg.auth_token)
                 ELSE DefaultHeaders,
     cookies |-> EmptyDict]

----------------------------------------------------------------------------
(* _make_request (test_runner.py 180-286) *)

\* lines 196-198: the session's Authorization is added only when the request's
\* own headers lack one
MergeAuthorizationMutantOverride(headers, sess) ==
    IF "Authorization" \in DOMAIN sess.headers
    THEN DictSet(headers, "Authorization", sess.headers["Authorization"])
    ELSE headers
MergeAuthorization(headers, sess) ==
    IF "Authorization" \in DOMAIN sess.headers /\ "Authorization" \notin DOMAIN headers
    THEN DictSet(headers, "Authorization", sess.headers["Authorization"])
    ELSE headers

MutatingMethods == {"POST", "PUT", "PATCH", "DELETE"}

\* lines 202-206: the csrftoken cookie becomes X-CSRFToken on a mutating method
\* whose headers lack one
MergeCsrfMutantAnyMethod(method, headers, sess) ==
    IF "X-CSRFToken" \notin DOMAIN headers /\ Truthy(DictGet(sess.cookies, "csrftoken"))
    THEN DictSet(headers, "X-CSRFToken", DictGet(sess.cookies, "csrftoken"))
    ELSE headers
MergeCsrf(method, headers, sess) ==
    IF method \in MutatingMethods
    THEN IF "X-CSRFToken" \notin DOMAIN headers
         THEN LET csrf_token == DictGet(sess.cookies, "csrftoken")
              IN  IF Truthy(csrf_token)
                  THEN DictSet(headers, "X-CSRFToken", csrf_token)
                  ELSE headers
         ELSE headers
    ELSE headers

\* lines 193-206: the headers argument of session.request, built on a copy of
\* request_config.headers
PrepareHeaders(req, sess) ==
    MergeCsrf(req.method, MergeAuthorization(req.headers, sess), sess)

\* line 194: `headers = dict(request_config.headers)`: lines 196-206 write to
\* the copy, and request_config.headers is after the call what it was before
CallerHeadersMutantAlias(req, merged) == merged
CallerHeaders(req, merged) == req.headers

\* line 242
IsSuccessMutantInclusive(status_code) == 200 <= status_code /\ status_code <= 300
IsSuccess(status_code) == 200 <= status_code /\ status_code < 300

\* line 257
ErrorField(success, text) == IF success THEN None ELSE Prefix(text, ErrorLimit)

\* lines 231-236: the captured payload. response.json() either parses or raises
\* ValueError, and then the first 1000 characters of a non-empty text are kept.
NoData == [kind |-> "none", value |-> <<>>]
ResponseData(cfg, resp) ==
    IF cfg.include_response_data
    THEN IF resp.json_ok
         THEN [kind |-> "json", value |-> resp.text]
         ELSE IF resp.text # <<>>
              THEN [kind |-> "text", value |-> Prefix(resp.text, ResponseDataLimit)]
              ELSE NoData
    ELSE NoData

\* lines 251-260: the RequestResult of a received response (timestamp, a
\* wall-clock reading nothing else reads, is left out)
ResponseResult(cfg, resp) ==
    [status_code |-> resp.status,
     elapsed_time |-> resp.elapsed,
     response_size |-> Len(resp.text),
     success |-> IsSuccess(resp.status),
     error |-> ErrorField(IsSuccess(resp.status), resp.text),
     response_headers |-> resp.headers,
     response_data |-> ResponseData(cfg, resp)]

\* lines 279-286: the RequestResult of a transport failure
FailureResult(resp) ==
    [status_code |-> TransportFailureStatus,
     elapsed_time |-> resp.elapsed,
     response_size |-> 0,
     success |-> FALSE,
     error |-> resp.message,
     response_headers |-> EmptyDict,
     response_data |-> NoData]

\* lines 271-286: `except Exception` turns what session.request raised into a
\* returned RequestResult
OnExceptionMutantPropagate(resp) == [raised |-> TRUE, result |-> FailureResult(resp)]
OnException(resp) == [raised |-> FALSE, result |-> FailureResult(resp)]

\* lines 190-286: what one call returns (or raises) when the transport answers
\* resp, with the headers it handed to session.request
MakeRequest(req, cfg, sess, resp) ==
    LET headers == PrepareHeaders(req, sess)
        out     == IF resp.kind = "exception"
                   THEN OnException(resp)
                   ELSE [raised |-> FALSE, result |-> ResponseResult(cfg, resp)]
    IN  [raised  |-> out.raised,
         result  |-> out.result,
         headers |-> headers,
         method  |-> req.method,
         caller_headers |-> CallerHeaders(req, headers)]

----------------------------------------------------------------------------
(* The transport: what session.request answers. *)

Chars(n, c) == [i \in 1..n |-> IF (i + c) % 2 = 0 THEN "a" ELSE "b"]

HttpResponse(status, text, json_ok) ==
    [kind |-> "http", status |-> status, text |-> text, json_ok |-> json_ok,
     elapsed |-> 2, headers |-> EmptyDict]

TransportError(message) ==
    [kind |-> "exception", message |-> message, elapsed |-> 1]

TimedOut == <<"t", "i", "m", "e", "d", " ", "o", "u", "t">>

\* the answers a run is checked against: a transport failure, a 2xx and a non-2xx
RunResponses ==
    {TransportError(TimedOut), HttpResponse(200, Chars(2, 0), TRUE),
     HttpResponse(500, Chars(3, 1), FALSE)}

----------------------------------------------------------------------------
(* Numbers. Elapsed times are whole ticks of the clock and sizes are whole  *)
(* bytes; a float that a division or a statistic yields is the fraction     *)
(* [num, den] in lowest terms with den > 0, and a float read from an        *)
(* integer n is n/1.                                                        *)

Abs(x) == IF x < 0 THEN -x ELSE x

RECURSIVE GCD(_, _)
GCD(a, b) == IF b = 0 THEN a ELSE GCD(b, a % b)

\* n / d, d # 0
Fraction(n, d) ==
    LET g == GCD(Abs(n), Abs(d))
        s == IF d < 0 THEN -1 ELSE 1
    IN  [num |-> (s * n) \div g, den |-> (s * d) \div g]

Float(n) == [num |-> n, den |-> 1]

\* Python's None where a float may stand: the record no fraction equals
NoneFloat == [num |-> 0, den |-> 0]

Sub(a, b) == Fraction(a.num * b.den - b.num * a.den, a.den * b.den)
Mul(a, b) == Fraction(a.num * b.num, a.den * b.den)
\* a / b, b # 0
Div(a, b) == Fraction(a.num * b.den, a.den * b.num)
Leq(a, b) == a.num * b.den <= b.num * a.den
Geq(a, b) == Leq(b, a)

----------------------------------------------------------------------------
(* TestResult (test_runner.py 60-132) *)

\* line 88: the fewest successful outcomes that give a 95th percentile
P95MinSamples == 20

\* line 89: the fewest successful outcomes that give a 99th percentile
P99MinSamples == 100

\* lines 60-70: the dataclass; summary is {} until calculate_summary sets it
\* (start_time, end_time and total_duration, wall-clock readings that neither
\* the summary nor the comparison reads, are left out)
TestResult(test_name, request_results, iterations, concurrent) ==
    [test_name |-> test_name, request_results |-> request_results,
     iterations |-> iterations, concurrent |-> concurrent, summary |-> EmptyDict]

\* line 78: [r.elapsed_time for r in results if r.success]
ElapsedTimes(outcomes) ==
    LET ok == SelectSeq(outcomes, LAMBDA r : r.success)
    IN  [i \in DOMAIN ok |-> ok[i].elapsed_time]

\* line 95: [r.response_size for r in results if r.success]
ResponseSizes(outcomes) ==
    LET ok == SelectSeq(outcomes, LAMBDA r : r.success)
    IN  [i \in DOMAIN ok |-> ok[i].response_size]

\* lines 79-80: if not elapsed_times: continue
HasRowMutantTwoSamples(outcomes) == Len(ElapsedTimes(outcomes)) > 1
HasRow(outcomes) == ElapsedTimes(outcomes) # <<>>

\* lines 88-89: sorted(data): the same values, ascending
SortedMutantUnsorted(s) == s
Sorted(s) ==
    LET values == {s[j] : j \in DOMAIN s}
        upto   == [v \in values |-> Cardinality({j \in DOMAIN s : s[j] <= v})]
    IN  [i \in DOMAIN s |->
            CHOOSE v \in values : i <= upto[v] /\ \A w \in values : w < v => upto[w] < i]

\* lines 84-85: min(data), max(data), data # <<>>
MinOf(s) == CHOOSE v \in {s[j] : j \in DOMAIN s} : \A j \in DOMAIN s : v <= s[j]
MaxOf(s) == CHOOSE v \in {s[j] : j \in DOMAIN s} : \A j \in DOMAIN s : s[j] <= v

\* sum(x for x in data[lo..hi]), added up by halves
RECURSIVE SumRange(_, _, _)
SumRange(s, lo, hi) ==
    IF lo > hi THEN 0
    ELSE IF lo = hi THEN s[lo]
    ELSE LET mid == (lo + hi) \div 2
         IN  SumRange(s, lo, mid) + SumRange(s, mid + 1, hi)

Sum(s) == SumRange(s, 1, Len(s))

\* sum(x * x for x in data)
SumSquares(s) == Sum([j \in DOMAIN s |-> s[j] * s[j]])

\* line 86: statistics.mean(data), data # <<>>
Mean(s) == Fraction(Sum(s), Len(s))

\* line 87: statistics.median(data), data # <<>>: the middle of the sorted data, or the
\* mean of the two middle values
Median(s) ==
    LET data == Sorted(s)
        n    == Len(s)
    IN  IF n % 2 = 1
        THEN Float(data[(n \div 2) + 1])
        ELSE Fraction(data[n \div 2] + data[(n \div 2) + 1], 2)

\* line 90: statistics.stdev(data), Len(data) > 1: the square root of the sample
\* variance sum((x - mean)^2) / (n - 1), kept as its radicand
Stdev(s) ==
    LET n == Len(s)
    IN  [sqrt_of |-> Fraction(n * SumSquares(s) - Sum(s) * Sum(s), n * (n - 1))]

\* lines 88-89: int(len(elapsed_times) * 0.95), int(len(elapsed_times) * 0.99).
\* The double nearest q/100 is below q/100 by less than half an ulp, so the
\* double product n * 0.95 (n * 0.99) rounds to the integer when 100 divides
\* n * q and is at least 1/100 away from an integer otherwise: int() of it is
\* the floor of the exact product.
PercentileIndexMutantRank(n, q) == (n * q + 99) \div 100
PercentileIndex(n, q) == (n * q) \div 100

\* lines 88-89: `if len(elapsed_times) >= 20`, `if len(elapsed_times) >= 100`
HasPercentileMutantStrict(n, threshold) == n > threshold
HasPercentile(n, threshold) == n >= threshold

\* lines 88-89: sorted(elapsed_times)[int(len(elapsed_times) * q)] if
\* len(elapsed_times) >= threshold else None; a Python index k is k + 1 here
Percentile(elapsed_times, q, threshold) ==
    IF HasPercentile(Len(elapsed_times), threshold)
    THEN Float(Sorted(elapsed_times)[PercentileIndex(Len(elapsed_times), q) + 1])
    ELSE NoneFloat

\* line 91
TotalRequestsMutantSuccessful(outcomes) == Len(ElapsedTimes(outcomes))
TotalRequests(outcomes) == Len(outcomes)

\* lines 83-96: the row of an endpoint with at least one successful outcome
EndpointSummary(outcomes) ==
    LET elapsed_times == ElapsedTimes(outcomes)
        n             == Len(elapsed_times)
    IN  [min_time            |-> Float(MinOf(elapsed_times)),
         max_time            |-> Float(MaxOf(elapsed_times)),
         mean_time           |-> Mean(elapsed_times),
         median_time         |-> Median(elapsed_times),
         p95_time            |-> Percentile(elapsed_times, 95, P95MinSamples),
         p99_time            |-> Percentile(elapsed_times, 99, P99MinSamples),
         std_dev             |-> IF n > 1 THEN Stdev(elapsed_times)
                                 ELSE [sqrt_of |-> Float(0)],
         total_requests      |-> TotalRequests(outcomes),
         successful_requests |-> n,
         failed_requests     |-> Len(outcomes) - n,
         success_rate        |-> IF outcomes # <<>>
                                 THEN Fraction(n, Len(outcomes)) ELSE Float(0),
         avg_response_size   |-> IF elapsed_times # <<>>
                                 THEN Mean(ResponseSizes(outcomes)) ELSE Float(0)]

\* lines 72-100: calculate_summary builds a new mapping and stores it
CalculateSummary(request_results) ==
    [endpoint \in {e \in DOMAIN request_results : HasRow(request_results[e])} |->
        EndpointSummary(request_results[endpoint])]

\* lines 113-116: a falsy response_data is deleted from the serialized outcome
SerializeRequest(request) ==
    IF request.response_data.kind = "none"
    THEN [f \in DOMAIN request \ {"response_data"} |-> request[f]]
    ELSE request

\* line 104: `if not self.summary`
NeedsSummary(summary) == summary = EmptyDict

\* lines 102-118: to_dict: the object afterwards and the dict returned
ToDict(tr) ==
    LET object == IF NeedsSummary(tr.summary)
                  THEN [tr EXCEPT !.summary = CalculateSummary(tr.request_results)]
                  ELSE tr
    IN  [object |-> object,
         result |-> [object EXCEPT !.request_results =
                        [e \in DOMAIN object.request_results |->
                            [i \in DOMAIN object.request_results[e] |->
                                SerializeRequest(object.request_results[e][i])]]]]

\* before run() has returned a TestResult
NoResult == [test_name |-> None]

----------------------------------------------------------------------------
(* compare_runs.py: two persisted run records compared *)

\* lines 42-57: one dataframe row per recorded outcome of the run
DataFrameRows(run) ==
    UNION {{<<e, i>> : i \in DOMAIN run.request_results[e]} :
              e \in DOMAIN run.request_results}

\* lines 57-60: pd.DataFrame([]) has no columns, so df['timestamp'] raises
\* KeyError for a run with no recorded outcome
PrepareDataframeRaises(run) == DataFrameRows(run) = {}

\* lines 170, 253: set(summary1.keys()) & set(summary2.keys())
CommonEndpoints(summary1, summary2) == DOMAIN summary1 \cap DOMAIN summary2

\* lines 279-286: (metric_name, metric_key, multiplier)
Metrics ==
    <<[name |-> "Mean Time (ms)",   key |-> "mean_time",      multiplier |-> 1000],
      [name |-> "Median Time (ms)", key |-> "median_time",    multiplier |-> 1000],
      [name |-> "Min Time (ms)",    key |-> "min_time",       multiplier |-> 1000],
      [name |-> "Max Time (ms)",    key |-> "max_time",       multiplier |-> 1000],
      [name |-> "Success Rate (%)", key |-> "success_rate",   multiplier |-> 100],
      [name |-> "Requests",         key |-> "total_requests", multiplier |-> 1]>>

\* lines 291-292: stats[metric_key] * multiplier; total_requests is an int in
\* the record, the other metrics are floats
MetricValue(stats, metric) ==
    Mul(IF metric.key = "total_requests" THEN Float(stats[metric.key])
        ELSE stats[metric.key],
        Float(metric.multiplier))

\* line 293
DiffMutantMagnitude(val1, val2) == Float(Abs(Sub(val2, val1).num))
Diff(val1, val2) == Sub(val2, val1)

\* lines 295-298
PctChangeMutantOverNew(val1, val2) ==
    IF val2.num # 0 THEN Mul(Div(Diff(val1, val2), val2), Float(100)) ELSE Float(0)
PctChange(val1, val2) ==
    IF val1.num # 0 THEN Mul(Div(Diff(val1, val2), val1), Float(100)) ELSE Float(0)

\* lines 300-309
ColorMutantSameForAll(metric_key, diff) ==
    IF metric_key = "total_requests" THEN "black"
    ELSE IF Leq(diff, Float(0)) THEN "green" ELSE "red"
Color(metric_key, diff) ==
    IF metric_key = "success_rate"
    THEN IF Geq(diff, Float(0)) THEN "green" ELSE "red"
    ELSE IF metric_key = "total_requests"
         THEN "black"
         ELSE IF Leq(diff, Float(0)) THEN "green" ELSE "red"

\* lines 289-329: what one row of the table is formatted from (the cells show
\* val1, val2, diff and pct_change to two decimals)
StatsRow(metric, stats1, stats2) ==
    LET val1 == MetricValue(stats1, metric)
        val2 == MetricValue(stats2, metric)
    IN  [metric     |-> metric.name,
         val1       |-> val1,
         val2       |-> val2,
         diff       |-> Diff(val1, val2),
         pct_change |-> PctChange(val1, val2),
         color      |-> Color(metric.key, Diff(val1, val2))]

\* lines 249-336: generate_detailed_stats_table: the placeholder paragraph, or
\* a row for every common endpoint and every metric both rows of it hold
\* (rows[<<endpoint, metric_key>>]; the order of the endpoints is the one
\* list(set) happens to give)
StatsTable(results1, results2) ==
    LET summary1 == results1.summary
        summary2 == results2.summary
        common   == CommonEndpoints(summary1, summary2)
        cells    == {<<e, Metrics[m].key>> : e \in common, m \in DOMAIN Metrics}
        compared == {c \in cells : /\ c[2] \in DOMAIN summary1[c[1]]
                                   /\ c[2] \in DOMAIN summary2[c[1]]}
        MetricOf(key) == Metrics[CHOOSE m \in DOMAIN Metrics : Metrics[m].key = key]
    IN  IF common = {}
        THEN [placeholder |-> TRUE, rows |-> EmptyDict]
        ELSE [placeholder |-> FALSE,
              rows |-> [c \in compared |->
                           StatsRow(MetricOf(c[2]), summary1[c[1]], summary2[c[1]])]]

\* lines 181-185: the percentage improvement (negative means slower)
ImprovementMutantOverNew(mean_time1, mean_time2) ==
    IF mean_time2.num > 0
    THEN Mul(Div(Sub(mean_time1, mean_time2), mean_time2), Float(100))
    ELSE Float(0)
Improvement(mean_time1, mean_time2) ==
    IF mean_time1.num > 0
    THEN Mul(Div(Sub(mean_time1, mean_time2), mean_time1), Float(100))
    ELSE Float(0)

\* lines 178-193, 205: one bar of the improvement chart
ImprovementBar(stats1, stats2) ==
    LET mean_time1 == Mul(stats1.mean_time, Float(1000))
        mean_time2 == Mul(stats2.mean_time, Float(1000))
        improvement == Improvement(mean_time1, mean_time2)
    IN  [run1_time     |-> mean_time1,
         run2_time     |-> mean_time2,
         improvement   |-> improvement,
         absolute_diff |-> Sub(mean_time1, mean_time2),
         color         |-> IF Geq(improvement, Float(0)) THEN "green" ELSE "red"]

\* lines 166-232: plot_response_time_improvement: no file when the runs share
\* no endpoint, else the chart's bars, one per common endpoint
NoChart == [file |-> None, bars |-> EmptyDict]
ResponseTimeImprovement(results1, results2) ==
    LET summary1 == results1.summary
        summary2 == results2.summary
        common   == CommonEndpoints(summary1, summary2)
    IN  IF common = {}
        THEN NoChart
        ELSE [file |-> <<"response_time_improvement">>,
              bars |-> [e \in common |-> ImprovementBar(summary1[e], summary2[e])]]

\* lines 524-567: compare_test_results on two loaded records: what it raises,
\* or the files it wrote with what the report's table and the improvement
\* chart show (the labels default to the records' test names)
CompareTestResults(results1, results2) ==
    IF PrepareDataframeRaises(results1) \/ PrepareDataframeRaises(results2)
    THEN [state |-> "raised", error |-> "KeyError", results1 |-> results1,
          results2 |-> results2]
    ELSE LET chart == ResponseTimeImprovement(results1, results2)
         IN  [state        |-> "returned",
              results1     |-> results1,
              results2     |-> results2,
              chart        |-> chart,
              table        |-> StatsTable(results1, results2),
              output_files |-> {"response_time_comparison", "success_rate_comparison",
                                "html_report"}
                                  \cup IF chart.file # None
                                       THEN {"response_time_improvement"} ELSE {}]

----------------------------------------------------------------------------
(* run(), _run_sequential, _run_concurrent (test_runner.py 288-403) *)

NumRequests == Len(config.requests)
NumWarmUp   == config.warm_up_iterations * NumRequests
NumMeasured == config.iterations * NumRequests

\* the k-th (from 1) request of a phase: iteration-major, then spec order
IterationOf(k) == ((k - 1) \div NumRequests) + 1
IndexOf(k)     == ((k - 1) % NumRequests) + 1
RequestOf(k)   == config.requests[IndexOf(k)]
Tag(phase, k)  == <<phase, IterationOf(k), IndexOf(k)>>

\* lines 290, 305 / 311, 336: the key of a request's list is its endpoint
ResultKeyMutantMethod(req) == <<req.method, req.endpoint>>
ResultKey(req) == req.endpoint

\* lines 290 / 311: results = {req.endpoint: [] for req in self.config.requests}
EmptyResults(cfg) ==
    [e \in {ResultKey(cfg.requests[i]) : i \in 1..Len(cfg.requests)} |-> <<>>]

\* line 329: the future executor.submit returns, its task queued; tmp is the
\* counter value the task's thread has read, result what _make_request built
NewFuture ==
    [state |-> "queued", tmp |-> 0, result |-> FailureResult(TransportError(<<>>))]

\* the RequestResult with the task it came from (a history field of the model)
Tagged(result, tag) == [task |-> tag] @@ result

\* lines 263-267 and 276-277 on the calling thread: request_count += 1, then
\* success_count or error_count += 1
Count(out) ==
    /\ request_count' = request_count + 1
    /\ success_count' = IF out.result.success THEN success_count + 1 ELSE success_count
    /\ error_count'   = IF out.result.success THEN error_count ELSE error_count + 1

\* self.config once _make_request has returned from its call on the i-th
\* request of the list
ConfigAfter(i, out) == [config EXCEPT !.requests[i].headers = out.caller_headers]

\* after the warm-up loops: line 300 or line 321; with no measured request to
\* make the loops of lines 300-305 / 321-336 have nothing to do and the runner
\* returns its empty lists
AfterWarmUp ==
    IF NumMeasured = 0 THEN "teardown"
    ELSE IF config.concurrent THEN "submit" ELSE "measure"

\* lines 293-297 / 314-318: the warm-up loops have requests left to make
WarmUpPendingMutantSkipLast(done) == done < NumWarmUp - 1
WarmUpPending(done) == done < NumWarmUp

\* lines 349-352, and on to the chosen runner
Start ==
    /\ pc = "start"
    /\ setup_calls' = IF config.setup_function THEN setup_calls + 1 ELSE setup_calls
    /\ pc' = IF WarmUpPending(0) THEN "warmup" ELSE AfterWarmUp
    /\ results' = EmptyResults(config)
    /\ UNCHANGED <<appVars, reportVars, testerVars, call, warm_done, seq_done, pool_size, futures, trace,
                   teardown_calls>>

\* lines 293-297 / 314-318: one warm-up request, on the calling thread, its
\* result dropped
WarmUp ==
    /\ pc = "warmup"
    /\ warm_done < NumWarmUp
    /\ \E resp \in RunResponses :
         LET out == MakeRequest(RequestOf(warm_done + 1), config, session, resp)
         IN  /\ trace' = Append(trace, Tag("warmup", warm_done + 1))
             /\ config' = ConfigAfter(IndexOf(warm_done + 1), out)
             /\ IF out.raised
                THEN /\ pc' = "raised"
                     /\ UNCHANGED <<request_count, success_count, error_count, warm_done>>
                ELSE /\ Count(out)
                     /\ warm_done' = warm_done + 1
                     /\ pc' = IF WarmUpPending(warm_done + 1) THEN "warmup" ELSE AfterWarmUp
    /\ UNCHANGED <<appVars, reportVars, session, switching, call, seq_done, results, pool_size, futures,
                   setup_calls, teardown_calls>>

\* lines 300-305: one measured request of _run_sequential, appended to its
\* endpoint's list
SeqAppendMutantPrepend(res, req, result) ==
    [res EXCEPT ![req.endpoint] = <<result>> \o @]
SeqAppend(res, req, result) ==
    [res EXCEPT ![ResultKey(req)] = Append(@, result)]

SeqRequest ==
    /\ pc = "measure"
    /\ seq_done < NumMeasured
    /\ \E resp \in RunResponses :
         LET req == RequestOf(seq_done + 1)
             out == MakeRequest(req, config, session, resp)
         IN  /\ trace' = Append(trace, Tag("measured", seq_done + 1))
             /\ config' = ConfigAfter(IndexOf(seq_done + 1), out)
             /\ IF out.raised
                THEN /\ pc' = "raised"
                     /\ UNCHANGED <<request_count, success_count, error_count,
                                    seq_done, results>>
                ELSE /\ Count(out)
                     /\ seq_done' = seq_done + 1
                     /\ results' = SeqAppend(results, req,
                                     Tagged(out.result, Tag("measured", seq_done + 1)))
                     /\ pc' = IF seq_done + 1 = NumMeasured THEN "teardown" ELSE "measure"
    /\ UNCHANGED <<appVars, reportVars, session, switching, call, warm_done, pool_size, futures,
                   setup_calls, teardown_calls>>

\* the states of a future whose task a worker thread is running
WorkerStates == {"running", "loaded_total", "stored_total", "loaded_tally"}

Active == {t \in DOMAIN futures : futures[t].state \in WorkerStates}

\* line 327: ThreadPoolExecutor(max_workers=self.config.max_workers), at most
\* that many tasks are being run at once
PoolHasIdleWorkerMutantOneMore == Cardinality(Active) <= pool_size
PoolHasIdleWorker == Cardinality(Active) < pool_size

\* lines 321-331: the task list is (iteration, request) in iteration-major
\* order; the executor is created with max_workers threads at most, and the
\* calling thread submits the next task of the list
Submit ==
    /\ pc = "submit"
    /\ Len(futures) < NumMeasured
    /\ pool_size' = IF Len(futures) = 0 THEN config.max_workers ELSE pool_size
    /\ futures' = Append(futures, NewFuture)
    /\ pc' = IF Len(futures) + 1 = NumMeasured THEN "collect" ELSE "submit"
    /\ UNCHANGED <<appVars, reportVars, testerVars, call, warm_done, seq_done, results, trace,
                   setup_calls, teardown_calls>>

\* a pool thread takes the oldest queued task and calls _make_request: the
\* request is sent (lines 190-225)
WorkerStart(t) ==
    /\ futures[t].state = "queued"
    /\ \A u \in DOMAIN futures : u < t => futures[u].state # "queued"
    /\ PoolHasIdleWorker
    /\ futures' = [futures EXCEPT ![t].state = "running"]
    /\ trace' = Append(trace, Tag("measured", t))
    /\ UNCHANGED <<appVars, reportVars, testerVars, call, pc, warm_done, seq_done, results, pool_size,
                   setup_calls, teardown_calls>>

\* the transport answers a worker's request: the RequestResult is built (lines
\* 227-260 or 271-273). Where the interpreter runs each `+=` of lines 263-267 /
\* 276-277 without a thread switch the counters are bumped and the future is
\* finished; where it can switch, `self.request_count += 1` has read the counter.
WorkerResponse(t) ==
    /\ futures[t].state = "running"
    /\ \E resp \in RunResponses :
         LET out == MakeRequest(RequestOf(t), config, session, resp)
             res == Tagged(out.result, Tag("measured", t))
         IN  /\ config' = ConfigAfter(IndexOf(t), out)
             /\ IF out.raised
                THEN /\ futures' = [futures EXCEPT ![t] =
                           [state |-> "failed", tmp |-> 0, result |-> out.result]]
                     /\ UNCHANGED <<request_count, success_count, error_count>>
                ELSE IF switching
                THEN /\ futures' = [futures EXCEPT ![t] =
                           [state |-> "loaded_total", tmp |-> request_count, result |-> res]]
                     /\ UNCHANGED <<request_count, success_count, error_count>>
                ELSE /\ futures' = [futures EXCEPT ![t] =
                           [state |-> "finished", tmp |-> 0, result |-> res]]
                     /\ Count(out)
    /\ UNCHANGED <<appVars, reportVars, session, switching, call, pc, warm_done, seq_done, results,
                   pool_size, trace, setup_calls, teardown_calls>>

\* `self.request_count += 1` writes the counter (line 263 / 276)
WorkerStoreTotal(t) ==
    /\ futures[t].state = "loaded_total"
    /\ request_count' = futures[t].tmp + 1
    /\ futures' = [futures EXCEPT ![t].state = "stored_total"]
    /\ UNCHANGED <<appVars, reportVars, config, session, switching, success_count, error_count, call, pc,
                   warm_done, seq_done, results, pool_size, trace,
                   setup_calls, teardown_calls>>

\* `self.success_count += 1` or `self.error_count += 1` reads its counter
\* (lines 264-267 / 277)
WorkerLoadTally(t) ==
    /\ futures[t].state = "stored_total"
    /\ futures' = [futures EXCEPT ![t].state = "loaded_tally",
                                  ![t].tmp = IF futures[t].result.success
                                             THEN success_count ELSE error_count]
    /\ UNCHANGED <<appVars, reportVars, testerVars, call, pc, warm_done, seq_done, results, pool_size, trace,
                   setup_calls, teardown_calls>>

\* ... and writes it; _make_request returns and the future is finished
WorkerStoreTally(t) ==
    /\ futures[t].state = "loaded_tally"
    /\ success_count' = IF futures[t].result.success
                        THEN futures[t].tmp + 1 ELSE success_count
    /\ error_count'   = IF futures[t].result.success
                        THEN error_count ELSE futures[t].tmp + 1
    /\ futures' = [futures EXCEPT ![t].state = "finished", ![t].tmp = 0]
    /\ UNCHANGED <<appVars, reportVars, config, session, switching, request_count, call, pc, warm_done,
                   seq_done, results, pool_size, trace, setup_calls, teardown_calls>>

\* lines 334-336: results[req_config.endpoint].append(future.result())
CollectAppendMutantOverwrite(res, req, result) ==
    [res EXCEPT ![req.endpoint] = <<result>>]
CollectAppend(res, req, result) ==
    [res EXCEPT ![ResultKey(req)] = Append(@, result)]

\* as_completed has handed over every future of future_to_task
AllCollectedMutantFirst(fs) == \E t \in DOMAIN fs : fs[t].state = "collected"
AllCollected(fs) == Len(fs) = NumMeasured /\ \A t \in DOMAIN fs : fs[t].state = "collected"

\* lines 333-336: as_completed hands the calling thread a finished future, in
\* any order among those finished, and its outcome is appended; a future that
\* holds an exception re-raises it from future.result()
Collect(t) ==
    /\ pc = "collect"
    /\ futures[t].state \in {"finished", "failed"}
    /\ IF futures[t].state = "failed"
       THEN /\ pc' = "raised"
            /\ UNCHANGED <<results, futures>>
       ELSE /\ results' = CollectAppend(results, RequestOf(t), futures[t].result)
            /\ futures' = [futures EXCEPT ![t].state = "collected"]
            /\ pc' = IF AllCollected(futures') THEN "teardown" ELSE "collect"
    /\ UNCHANGED <<appVars, reportVars, testerVars, call, warm_done, seq_done, pool_size, trace,
                   setup_calls, teardown_calls>>

\* lines 366-374: the runner has returned, and the teardown function is called
Teardown ==
    /\ pc = "teardown"
    /\ teardown_calls' = IF config.teardown_function
                         THEN teardown_calls + 1 ELSE teardown_calls
    /\ pc' = "summarize"
    /\ UNCHANGED <<appVars, reportVars, testerVars, call, warm_done, seq_done, results,
                   pool_size, futures, trace, setup_calls>>

\* lines 376-403: the TestResult, its summary, and run() returns
Finish ==
    /\ pc = "summarize"
    /\ test_result' = [TestResult(config.name, results, config.iterations,
                                  config.concurrent)
                           EXCEPT !.summary = CalculateSummary(results)]
    /\ pc' = "done"
    /\ UNCHANGED <<appVars, testerVars, call, warm_done, seq_done, results, pool_size, futures,
                   trace, setup_calls, teardown_calls, record, comparison>>

----------------------------------------------------------------------------
(* The runs checked. *)

Token == <<"t", "k">>
OwnAuthorization == <<"B", "a", "s", "i", "c", " ", "x">>
OwnCsrf == <<"o", "w", "n">>

Paths == <<"/a", "/b", "/c", "/d">>
Methods == <<"GET", "POST", "PUT", "DELETE">>

\* the request lists of the runs: n requests of which the first `distinct` have
\* paths of their own and the others share the first one's; the methods differ,
\* and every second request brings its own Authorization
RunRequestList(n, distinct) ==
    [i \in 1..n |->
        RequestConfig(Methods[i], Paths[IF i <= distinct THEN i ELSE 1],
                      IF i % 2 = 0
                      THEN [h \in {"Authorization"} |-> OwnAuthorization]
                      ELSE EmptyDict)]

RunRequestLists ==
    {RunRequestList(n, d) : n \in 1..MaxRequests, d \in 1..MaxRequests}

\* TestConfig: name and base_url are not read by the scheduler
RunConfigs ==
    {[name |-> "run", requests |-> rs, iterations |-> it, concurrent |-> cc,
      max_workers |-> mw,
      warm_up_iterations |-> wu, include_response_data |-> FALSE,
      auth_token |-> Token, setup_function |-> hooks, teardown_function |-> hooks] :
        rs \in RunRequestLists, it \in 1..MaxIterations,
        cc \in BOOLEAN, mw \in 1..MaxWorkers, wu \in 0..MaxWarmUp, hooks \in BOOLEAN}

NoCall == [state |-> "none"]

\* no comparison made
NoComparison == [state |-> "none"]

\* the command not invoked
NoCommand == [state |-> "none"]

\* no response received
NoResponse ==
    [action |-> "none", user |-> "", pk |-> 0, status_code |-> 0,
     data |-> [kind |-> "none"]]

\* neither the command nor the prompts API is in use
NoApplication ==
    /\ command = NoCommand
    /\ prompts = EmptyDict
    /\ next_id = 1
    /\ response = NoResponse

\* the testers run: a sequential run's max_workers is not read, and a
\* concurrent run makes at most MaxTasks requests, the warm-up ones included
RunInputs ==
    {<<c, sw>> \in RunConfigs \X BOOLEAN :
        /\ c.iterations * Len(c.requests) <= MaxTasks
        /\ c.concurrent =>
              (c.warm_up_iterations + c.iterations) * Len(c.requests) <= MaxTasks
        /\ ~c.concurrent => c.max_workers = 1 /\ ~sw
        /\ sw => /\ c.iterations * Len(c.requests) <= MaxRacyTasks
                 /\ c.warm_up_iterations = 0
                 /\ ~c.setup_function}

\* a tester constructed on a config (lines 143-166), run() about to be called
Init ==
    /\ \E in \in RunInputs : config = in[1] /\ switching = in[2]
    /\ session = NewSession(config)
    /\ request_count = 0
    /\ success_count = 0
    /\ error_count = 0
    /\ call = NoCall
    /\ pc = "start"
    /\ warm_done = 0
    /\ seq_done = 0
    /\ results = EmptyDict
    /\ pool_size = 0
    /\ futures = <<>>
    /\ trace = <<>>
    /\ setup_calls = 0
    /\ teardown_calls = 0
    /\ test_result = NoResult
    /\ record = NoResult
    /\ comparison = NoComparison
    /\ NoApplication

Next ==
    \/ Start
    \/ WarmUp
    \/ SeqRequest
    \/ Submit
    \/ \E t \in DOMAIN futures : WorkerStart(t)
    \/ \E t \in DOMAIN futures : WorkerResponse(t)
    \/ \E t \in DOMAIN futures : WorkerStoreTotal(t)
    \/ \E t \in DOMAIN futures : WorkerLoadTally(t)
    \/ \E t \in DOMAIN futures : WorkerStoreTally(t)
    \/ \E t \in DOMAIN futures : Collect(t)
    \/ Teardown
    \/ Finish

Spec == Init /\ [][Next]_vars

\* the steps of the calling thread
MainStep ==
    \/ Start \/ WarmUp \/ SeqRequest \/ Submit \/ Teardown \/ Finish
    \/ \E t \in DOMAIN futures : Collect(t)

\* the steps of the pool thread that runs task t; WorkerResponse is the
\* transport answering or timing out
WorkerStep(t) ==
    /\ t \in DOMAIN futures
    /\ \/ WorkerStart(t)
       \/ WorkerResponse(t)
       \/ WorkerStoreTotal(t)
       \/ WorkerLoadTally(t)
       \/ WorkerStoreTally(t)

\* the calling thread and every pool thread keep being scheduled, and every
\* request sent is answered or times out
FairSpec ==
    /\ Spec
    /\ WF_vars(MainStep)
    /\ \A t \in 1..MaxTasks : WF_vars(WorkerStep(t))

----------------------------------------------------------------------------
(* One _make_request call on a tester, over every kind of request, session  *)
(* and answer.                                                              *)

CsrfCookie == <<"c", "s", "r", "f">>

RequestMethods == {"GET", "POST", "PUT", "PATCH", "DELETE", "post"}

\* request_config.headers: with or without an Authorization and an X-CSRFToken
\* of its own
RequestHeaders ==
    {[h \in hs |-> IF h = "Authorization" THEN OwnAuthorization ELSE OwnCsrf] :
        hs \in SUBSET {"Authorization", "X-CSRFToken"}}

\* config.auth_token: None, empty, or a token
AuthTokens == {None, <<>>, Token}

\* the session's cookie jar by the time of the call: no csrftoken cookie, an
\* empty one, or one with a value
CookieJars ==
    {EmptyDict, [c \in {"csrftoken"} |-> <<>>], [c \in {"csrftoken"} |-> CsrfCookie]}

StatusCodes == {199, 200, 204, 299, 300, 404, 500}

\* response.text: lengths around the 500-character cut, two texts per length
\* from the cut on
Bodies ==
    {Chars(n, 0) : n \in {0, 1, ErrorLimit - 1}}
        \cup {Chars(ErrorLimit + k, c) : k \in 0..MaxBodyExtra, c \in {0, 1}}

Responses ==
    {TransportError(m) : m \in {TimedOut, <<>>}}
        \cup {HttpResponse(st, text, js) : st \in StatusCodes, text \in Bodies, js \in BOOLEAN}

CallConfigs ==
    {[name |-> "call", requests |-> <<RequestConfig(m, "/a", hs)>>, iterations |-> 1,
      concurrent |-> FALSE,
      max_workers |-> 1, warm_up_iterations |-> 0, include_response_data |-> ird,
      auth_token |-> tok, setup_function |-> FALSE, teardown_function |-> FALSE] :
        m \in RequestMethods, hs \in RequestHeaders, ird \in BOOLEAN, tok \in AuthTokens}

\* a tester constructed on a config, its session holding the cookies earlier
\* responses left; run() is not called
InitRequest ==
    /\ config \in CallConfigs
    /\ \E jar \in CookieJars : session = [NewSession(config) EXCEPT !.cookies = jar]
    /\ switching = FALSE
    /\ request_count = 0
    /\ success_count = 0
    /\ error_count = 0
    /\ call = NoCall
    /\ pc = "idle"
    /\ warm_done = 0
    /\ seq_done = 0
    /\ results = EmptyDict
    /\ pool_size = 0
    /\ futures = <<>>
    /\ trace = <<>>
    /\ setup_calls = 0
    /\ teardown_calls = 0
    /\ test_result = NoResult
    /\ record = NoResult
    /\ comparison = NoComparison
    /\ NoApplication

\* tester._make_request(config.requests[0]) with the transport answering resp
DirectCall ==
    /\ pc = "idle"
    /\ call = NoCall
    /\ \E resp \in Responses :
         /\ IF resp.kind = "http" THEN resp.json_ok => config.include_response_data ELSE TRUE
         /\ LET req == config.requests[1]
                out == MakeRequest(req, config, session, resp)
            IN  /\ call' = [state |-> IF out.raised THEN "raised" ELSE "returned",
                            req |-> req, resp |-> resp,
                            headers |-> out.headers, result |-> out.result]
                /\ config' = ConfigAfter(1, out)
                /\ IF out.raised
                   THEN UNCHANGED <<request_count, success_count, error_count>>
                   ELSE Count(out)
    /\ UNCHANGED <<appVars, reportVars, session, switching, runVars>>

NextRequest == DirectCall

SpecRequest == InitRequest /\ [][NextRequest]_vars

----------------------------------------------------------------------------
(* A TestResult in the hands of its caller: outcomes appended to its lists, *)
(* calculate_summary and to_dict called in any order.                       *)

\* appended successful outcomes take 1..MaxElapsed ticks
MaxElapsed == 2

\* the caller appends at most MaxOutcomes outcomes to a TestResult in all
MaxOutcomes == 3

\* a TestResult built on recorded lists holds up to MaxBeyond successful
\* outcomes more than a percentile's threshold
MaxBeyond == 1

SummaryEndpoints == {"GET /a", "POST /b"}

\* lines 34-44: a RequestResult as _make_request builds it for a 2xx answer
\* (ok) or a 5xx one
Outcome(elapsed, ok) ==
    [status_code |-> IF ok THEN 200 ELSE 500,
     elapsed_time |-> elapsed,
     response_size |-> IF ok THEN 2 * elapsed ELSE 0,
     success |-> ok,
     error |-> IF ok THEN None ELSE <<"e">>,
     response_headers |-> EmptyDict,
     response_data |-> NoData]

\* what the caller appends: a success after 1..MaxElapsed ticks, or a
\* failure that took longer than any of them
Outcomes == {Outcome(t, TRUE) : t \in 1..MaxElapsed} \cup {Outcome(MaxElapsed + 1, FALSE)}

\* the elapsed time of the i-th of n recorded outcomes
Shapes == {"rising", "falling", "mixed"}
ShapedTime(shape, i, n) ==
    CASE shape = "rising"  -> (i \div 8) + 1
      [] shape = "falling" -> ((n - i) \div 8) + 1
      [] shape = "mixed"   -> ((i * 7) % 5) + 1

\* n recorded outcomes, every fail_every-th of them a failure (none when 0)
RecordedList(n, shape, fail_every) ==
    [i \in 1..n |-> Outcome(ShapedTime(shape, i, n),
                            IF fail_every = 0 THEN TRUE ELSE i % fail_every # 0)]

\* the lengths around what the percentile thresholds ask for, in successful
\* outcomes or in outcomes of either kind
RecordedLengths ==
    UNION {{t + d, 2 * (t + d)} : t \in {P95MinSamples, P99MinSamples}, d \in -1..MaxBeyond}

RecordedLists ==
    {RecordedList(n, shape, fail_every) :
        n \in RecordedLengths, shape \in Shapes, fail_every \in {0, 2}}

\* what the second endpoint holds beside a recorded list
Companions == {<<>>, <<Outcome(1, TRUE)>>, <<Outcome(2, FALSE)>>}

\* the request_results a TestResult is constructed on
SummaryInputs ==
    {[e \in SummaryEndpoints |-> <<>>]}
        \cup {[e \in SummaryEndpoints |-> IF e = "GET /a" THEN long ELSE short] :
                 long \in RecordedLists, short \in Companions}

TotalOutcomes(request_results) ==
    Cardinality(UNION {{<<e, i>> : i \in DOMAIN request_results[e]} :
                          e \in DOMAIN request_results})

\* lines 60-70: TestResult(...) constructed, no method called yet
InitSummary ==
    /\ config = CHOOSE c \in CallConfigs : TRUE
    /\ session = NewSession(config)
    /\ switching = FALSE
    /\ request_count = 0
    /\ success_count = 0
    /\ error_count = 0
    /\ call = NoCall
    /\ pc = "constructed"
    /\ warm_done = 0
    /\ seq_done = 0
    /\ results = EmptyDict
    /\ pool_size = 0
    /\ futures = <<>>
    /\ trace = <<>>
    /\ setup_calls = 0
    /\ teardown_calls = 0
    /\ \E rr \in SummaryInputs : test_result = TestResult("run", rr, 1, FALSE)
    /\ record = NoResult
    /\ comparison = NoComparison
    /\ NoApplication

HoldsTestResult == pc \in {"constructed", "appended", "calculated", "serialized"}

\* line 67: request_results is a plain dict of lists:
\* test_result.request_results[endpoint].append(outcome)
AppendOutcome ==
    /\ HoldsTestResult
    /\ TotalOutcomes(test_result.request_results) < MaxOutcomes
    /\ \E e \in SummaryEndpoints, outcome \in Outcomes :
         test_result' = [test_result EXCEPT !.request_results[e] = Append(@, outcome)]
    /\ pc' = "appended"
    /\ UNCHANGED <<appVars, testerVars, call, warm_done, seq_done, results, pool_size, futures,
                   trace, setup_calls, teardown_calls, record, comparison>>

\* lines 72-100: test_result.calculate_summary()
CalculateSummaryCall ==
    /\ HoldsTestResult
    /\ test_result' = [test_result EXCEPT
                          !.summary = CalculateSummary(test_result.request_results)]
    /\ pc' = "calculated"
    /\ UNCHANGED <<appVars, testerVars, call, warm_done, seq_done, results, pool_size, futures,
                   trace, setup_calls, teardown_calls, record, comparison>>

\* lines 102-118: record = test_result.to_dict()
ToDictCall ==
    /\ HoldsTestResult
    /\ LET out == ToDict(test_result)
       IN  /\ test_result' = out.object
           /\ record' = out.result
    /\ pc' = "serialized"
    /\ UNCHANGED <<appVars, testerVars, call, warm_done, seq_done, results, pool_size, futures,
                   trace, setup_calls, teardown_calls, comparison>>

NextSummary == AppendOutcome \/ CalculateSummaryCall \/ ToDictCall

SpecSummary == InitSummary /\ [][NextSummary]_vars

----------------------------------------------------------------------------
(* compare_test_results called on two persisted run records. *)

\* the compared runs record successes that took 0..MaxLatency ticks
MaxLatency == 2

\* ... and at most MaxSamples of them per endpoint
MaxSamples == 2

\* the successes an endpoint recorded, in the order a steadily slowing
\* server gives, then possibly one failure
ComparedLists ==
    LET times == {s \in UNION {[1..n -> 0..MaxLatency] : n \in 0..MaxSamples} :
                     \A i \in 1..(Len(s) - 1) : s[i] <= s[i + 1]}
    IN  {[i \in DOMAIN s |-> Outcome(s[i], TRUE)] \o tail :
            s \in times, tail \in {<<>>, <<Outcome(MaxLatency + 1, FALSE)>>}}

\* the request_results of the compared runs: a run of no request, of either
\* endpoint, or of both
ComparedResults ==
    {[e \in endpoints |-> IF e = "GET /a" THEN a ELSE b] :
        endpoints \in SUBSET SummaryEndpoints, a \in ComparedLists, b \in Companions}

\* test_runner.py 120-132: the records save_to_file wrote of them
RunRecords == {ToDict(TestResult("run", rr, 1, FALSE)).result : rr \in ComparedResults}

\* lines 524-526: both files loaded
InitCompare ==
    /\ config = CHOOSE c \in CallConfigs : TRUE
    /\ session = NewSession(config)
    /\ switching = FALSE
    /\ request_count = 0
    /\ success_count = 0
    /\ error_count = 0
    /\ call = NoCall
    /\ pc = "compare"
    /\ warm_done = 0
    /\ seq_done = 0
    /\ results = EmptyDict
    /\ pool_size = 0
    /\ futures = <<>>
    /\ trace = <<>>
    /\ setup_calls = 0
    /\ teardown_calls = 0
    /\ test_result = NoResult
    /\ record = NoResult
    /\ \E results1 \in RunRecords, results2 \in RunRecords :
          comparison = [state |-> "loaded", results1 |-> results1, results2 |-> results2]
    /\ NoApplication

\* lines 528-567: the rest of compare_test_results
CompareCall ==
    /\ pc = "compare"
    /\ comparison.state = "loaded"
    /\ comparison' = CompareTestResults(comparison.results1, comparison.results2)
    /\ UNCHANGED <<appVars, testerVars, call, runVars, test_result, record>>

NextCompare == CompareCall

SpecCompare == InitCompare /\ [][NextCompare]_vars

----------------------------------------------------------------------------
(* The test_api management command (management/commands/test_api.py), and   *)
(* run() on a TestConfig a caller built without requests.                   *)

MaxCommandTasks == 6

\* TestConfig.max_workers when the constructor is not given one
DefaultMaxWorkers == 5

\* lines 183-221: available_endpoints with the prompt id 1, each group's
\* requests in the order the dict holds them
EndpointTypes == <<"prompts", "favorites", "variables", "render">>

AvailableEndpoints ==
    [k \in {EndpointTypes[i] : i \in DOMAIN EndpointTypes} |->
        CASE k = "prompts" ->
               <<RequestConfig("GET", "api/prompts/", EmptyDict),
                 RequestConfig("POST", "api/prompts/", EmptyDict),
                 RequestConfig("GET", "api/prompts/1/", EmptyDict)>>
          [] k = "favorites" ->
               <<RequestConfig("PATCH", "api/prompts/1/toggle_favorite/", EmptyDict)>>
          [] k = "variables" ->
               <<RequestConfig("GET", "api/prompts/1/variables/", EmptyDict)>>
          [] k = "render" ->
               <<RequestConfig("POST", "api/prompts/1/render/", EmptyDict)>>]

\* lines 226-236: the requests of the keys given, in the order given; a key
\* that is not predefined is only logged
RECURSIVE SelectEndpoints(_)
SelectEndpoints(keys) ==
    IF keys = <<>> THEN <<>>
    ELSE (IF Head(keys) \in DOMAIN AvailableEndpoints
          THEN AvailableEndpoints[Head(keys)] ELSE <<>>)
         \o SelectEndpoints(Tail(keys))

\* lines 224-236: test_endpoints
TestEndpoints(specific_endpoints) ==
    IF specific_endpoints # None /\ specific_endpoints # <<>>
    THEN SelectEndpoints(specific_endpoints)
    ELSE SelectEndpoints(EndpointTypes)

\* lines 239-241: `if not test_endpoints: ... sys.exit(1)`
NoEndpointsSelected(test_endpoints) == test_endpoints = <<>>

\* lines 160-255: _get_predefined_tests exits the process or returns one
\* TestConfig of all the requests selected
GetPredefinedTests(options, auth_token) ==
    LET test_endpoints == TestEndpoints(options.endpoints)
    IN  IF NoEndpointsSelected(test_endpoints)
        THEN [exited |-> TRUE, status |-> 1]
        ELSE [exited |-> FALSE,
              configs |-> <<[name |-> options.test_name,
                             requests |-> test_endpoints,
                             iterations |-> options.iterations,
                             concurrent |-> options.concurrent,
                             max_workers |-> DefaultMaxWorkers,
                             warm_up_iterations |-> options.warm_up,
                             include_response_data |-> options.include_response,
                             auth_token |-> auth_token,
                             setup_function |-> FALSE,
                             teardown_function |-> FALSE]>>]

\* no tester constructed yet
NoConfig == [name |-> None, auth_token |-> None]

\* --endpoints (nargs='+'): absent, or one key or more, predefined or not
EndpointOptions ==
    {None, <<"prompts">>, <<"favorites">>, <<"variables", "render">>,
     <<"other">>, <<"other", "favorites">>, <<"other", "others">>}

CommandOptions ==
    {[endpoints |-> e, test_name |-> "api_test", iterations |-> it,
      concurrent |-> cc, warm_up |-> wu, include_response |-> FALSE] :
        e \in EndpointOptions, it \in 1..MaxIterations, cc \in BOOLEAN,
        wu \in 0..MaxWarmUp}

\* the invocations checked: a sequential run makes at most MaxCommandTasks
\* measured requests and a concurrent one at most MaxRacyTasks requests
CommandInputs ==
    {in \in CommandOptions \X {None, Token} \X BOOLEAN :
        LET n == Len(TestEndpoints(in[1].endpoints))
        IN  /\ ~in[1].concurrent =>
                 /\ in[1].iterations * n <= MaxCommandTasks
                 /\ in[1].warm_up * n <= MaxTasks
                 /\ ~in[3]
            /\ in[1].concurrent =>
                 (in[1].warm_up + in[1].iterations) * n <= MaxRacyTasks
            /\ in[3] => in[1].warm_up = 0}

\* a TestConfig built by a caller of the library with an empty requests list
EmptyConfigs ==
    {[name |-> "empty", requests |-> <<>>, iterations |-> it, concurrent |-> cc,
      max_workers |-> mw, warm_up_iterations |-> wu,
      include_response_data |-> FALSE, auth_token |-> Token,
      setup_function |-> hooks, teardown_function |-> hooks] :
        it \in 1..MaxIterations, cc \in BOOLEAN, mw \in 1..MaxWorkers,
        wu \in 0..MaxWarmUp, hooks \in BOOLEAN}

\* either the command is invoked (handle, lines 322-335, its authentication
\* done: a token or none) or a tester is constructed on an empty config and
\* run() is about to be called
InitCommand ==
    /\ \/ \E in \in CommandInputs :
            /\ command = [state |-> "invoked", options |-> in[1], auth_token |-> in[2]]
            /\ switching = in[3]
            /\ config = NoConfig
            /\ pc = "handle"
       \/ \E c \in EmptyConfigs :
            /\ command = NoCommand
            /\ switching = FALSE
            /\ config = c
            /\ pc = "start"
    /\ session = NewSession(config)
    /\ request_count = 0
    /\ success_count = 0
    /\ error_count = 0
    /\ call = NoCall
    /\ warm_done = 0
    /\ seq_done = 0
    /\ results = EmptyDict
    /\ pool_size = 0
    /\ futures = <<>>
    /\ trace = <<>>
    /\ setup_calls = 0
    /\ teardown_calls = 0
    /\ test_result = NoResult
    /\ record = NoResult
    /\ comparison = NoComparison
    /\ prompts = EmptyDict
    /\ next_id = 1
    /\ response = NoResponse

\* lines 361-391: the configurations are built, or the process exits; the
\* tester is constructed on the configuration (test_runner.py 143-166)
HandleCommand ==
    /\ pc = "handle"
    /\ command.state = "invoked"
    /\ LET tests == GetPredefinedTests(command.options, command.auth_token)
       IN  IF tests.exited
           THEN /\ command' = [command EXCEPT !.state = "exited"]
                /\ pc' = "exited"
                /\ UNCHANGED <<config, session>>
           ELSE /\ command' = [command EXCEPT !.state = "running"]
                /\ config' = tests.configs[1]
                /\ session' = NewSession(tests.configs[1])
                /\ pc' = "start"
    /\ UNCHANGED <<request_count, success_count, error_count, switching, call,
                   warm_done, seq_done, results, pool_size, futures, trace,
                   setup_calls, teardown_calls, reportVars, prompts, next_id, response>>

\* lines 402-410: run() has returned and the result is saved
SaveResult ==
    /\ pc = "done"
    /\ command.state = "running"
    /\ test_result' = ToDict(test_result).object
    /\ record' = ToDict(test_result).result
    /\ command' = [command EXCEPT !.state = "saved"]
    /\ UNCHANGED <<testerVars, call, runVars, comparison, prompts, next_id, response>>

NextCommand == HandleCommand \/ SaveResult \/ Next

SpecCommand == InitCommand /\ [][NextCommand]_vars

----------------------------------------------------------------------------
(* The prompts API (prompts/models.py, serializers.py, views.py): the       *)
(* Prompt table and PromptViewSet's actions, called by authenticated users. *)
(* A str is a sequence of tokens: plain text, a placeholder {{ name }} with *)
(* any spacing that the pattern \{\{\s*name\s*\}\} matches, or, in a value, *)
(* a backslash escape. A JSON object is a function; the order of its keys   *)
(* matters for variable_values, which is the sequence of its items.         *)

MaxPrompts == 2

Users == {"alice", "bob"}

Text(t) == [kind |-> "text", text |-> t]
Placeholder(name) == [kind |-> "placeholder", text |-> name]
Escape(e) == [kind |-> "escape", text |-> e]

\* models.py 59-61: extract_variables, the unique names of the placeholders
ExtractVariables(description) ==
    {description[i].text :
        i \in {j \in DOMAIN description : description[j].kind = "placeholder"}}

\* serializers.py 33-35 / 79-81: the serializers' own copy of the pattern
DetectedVars(description) ==
    {description[i].text :
        i \in {j \in DOMAIN description : description[j].kind = "placeholder"}}

\* serializers.py 48-49 / 94-95: the schema made up for the detected variables
AutoSchema(detected_vars) == [v \in detected_vars |-> "string"]

\* serializers.py 28-44 / 74-90: validate rejects a non-empty schema that
\* lacks a variable of the description
UndefinedVars(data) ==
    IF "description" \in DOMAIN data
    THEN DetectedVars(data.description) \
             DOMAIN (IF "variables_schema" \in DOMAIN data
                     THEN data.variables_schema ELSE EmptyDict)
    ELSE {}

SchemaRejected(data) ==
    /\ UndefinedVars(data) # {}
    /\ "variables_schema" \in DOMAIN data
    /\ data.variables_schema # EmptyDict

\* serializers.py 46-52 / 92-98: validate fills in an empty schema
Validated(data) ==
    IF /\ "description" \in DOMAIN data
       /\ DetectedVars(data.description) # {}
       /\ ("variables_schema" \notin DOMAIN data \/ data.variables_schema = EmptyDict)
    THEN DictSet(data, "variables_schema", AutoSchema(DetectedVars(data.description)))
    ELSE data

\* models.py 11-21 and views.py 64: the row serializer.save(created_by=user)
\* inserts, the model's defaults where the data has no value
NewPrompt(data, user) ==
    [title |-> data.title,
     description |-> data.description,
     variables_schema |-> IF "variables_schema" \in DOMAIN data
                          THEN data.variables_schema ELSE EmptyDict,
     favorite |-> IF "favorite" \in DOMAIN data THEN data.favorite ELSE FALSE,
     created_by |-> user]

\* the row after ModelSerializer.update: the fields of the data are set
UpdatedPrompt(prompt, data) ==
    [f \in DOMAIN prompt |-> IF f \in DOMAIN data THEN data[f] ELSE prompt[f]]

\* views.py 42-48: get_queryset
QuerysetMutantAll(user) == DOMAIN prompts
Queryset(user) == {id \in DOMAIN prompts : prompts[id].created_by = user}

\* get_object (views.py 71, 92, 117 and the mixins): the row of the queryset
\* with the pk, or Http404
Found(user, pk) == pk \in Queryset(user)

\* serializers.py 6-21: PromptSerializer's representation of a row
Serialized(id) ==
    [id |-> id,
     title |-> prompts[id].title,
     description |-> prompts[id].description,
     variables_schema |-> prompts[id].variables_schema,
     detected_variables |-> ExtractVariables(prompts[id].description),
     favorite |-> prompts[id].favorite,
     created_by |-> prompts[id].created_by]

NoBody == [kind |-> "none"]

Response(action, user, pk, status_code, data) ==
    [action |-> action, user |-> user, pk |-> pk, status_code |-> status_code,
     data |-> data]

NotFound(action, user, pk) == Response(action, user, pk, 404, NoBody)

\* views.py 72: prompt.favorite = not prompt.favorite
ToggledMutantSet(prompt) == [prompt EXCEPT !.favorite = TRUE]
Toggled(prompt) == [prompt EXCEPT !.favorite = ~@]

\* serializers.py 118-119: the names of the items of variable_values
ProvidedVars(variable_values) ==
    {variable_values[i].name : i \in DOMAIN variable_values}

\* serializers.py 122-133: the error of PromptRenderSerializer.validate, if any
RenderError(prompt, variable_values) ==
    IF ExtractVariables(prompt.description) \ ProvidedVars(variable_values) # {}
    THEN "Missing values for variables"
    ELSE IF ProvidedVars(variable_values) \ ExtractVariables(prompt.description) # {}
    THEN "Unknown variables provided"
    ELSE "none"

\* re.sub takes its replacement for a template: \n is a newline, \g<0> the
\* text matched, and an escape such as \d is an error
BadEscape(repl) == \E i \in DOMAIN repl : repl[i] = Escape("d")

ExpandTemplate(repl, matched) ==
    [i \in DOMAIN repl |->
        IF repl[i] = Escape("n") THEN Text("newline")
        ELSE IF repl[i] = Escape("g<0>") THEN matched
        ELSE repl[i]]

RECURSIVE Flatten(_)
Flatten(seqs) == IF seqs = <<>> THEN <<>> ELSE Head(seqs) \o Flatten(Tail(seqs))

\* models.py 47-48: re.sub(pattern of var_name, str(var_value), rendered_text)
ReSub(var_name, repl, rendered_text) ==
    Flatten([i \in DOMAIN rendered_text |->
                IF rendered_text[i] = Placeholder(var_name)
                THEN ExpandTemplate(repl, rendered_text[i])
                ELSE <<rendered_text[i]>>])

\* models.py 43-50: render_template, one variable after the other in the
\* order of the dict
RECURSIVE RenderTemplate(_, _)
RenderTemplate(rendered_text, variable_values) ==
    IF variable_values = <<>>
    THEN [raised |-> FALSE, text |-> rendered_text]
    ELSE IF BadEscape(Head(variable_values).value)
    THEN [raised |-> TRUE, text |-> <<>>]
    ELSE RenderTemplate(ReSub(Head(variable_values).name,
                              Head(variable_values).value, rendered_text),
                        Tail(variable_values))

(* The requests checked. *)

\* what a request to the prompts API leaves alone
harnessVars == <<testerVars, call, runVars, reportVars, command>>

Plain == <<Text("This is a test prompt")>>
Template == <<Text("Hello, "), Placeholder("name"), Text("! Welcome to "),
              Placeholder("place"), Text(".")>>

Descriptions == {Plain, Template}

\* a schema of the client's that types every name given as a string
GivenSchema(names) == [v \in names |-> "string"]

\* the bodies of POST /prompts/: with no schema, with one for both variables
\* of Template, and with one for `name` only
CreateData ==
    {[title |-> "New", description |-> d, favorite |-> f] :
        d \in Descriptions, f \in BOOLEAN}
    \cup {[title |-> "New", description |-> Template, favorite |-> FALSE,
           variables_schema |-> GivenSchema(names)] :
            names \in {{"name", "place"}, {"name"}}}

\* the body of PUT /prompts/{pk}/
UpdateData ==
    {[title |-> "New", description |-> Template, favorite |-> TRUE]}

Item(name, value) == [name |-> name, value |-> value]

John == <<Text("John")>>
NewYork == <<Text("New York")>>

\* the variable_values of POST /prompts/{pk}/render/
VariableValues ==
    {<<>>,
     <<Item("name", John)>>,
     <<Item("name", John), Item("place", NewYork)>>,
     <<Item("name", John), Item("place", NewYork), Item("extra", John)>>,
     <<Item("name", John), Item("extra", John)>>,
     <<Item("name", <<Placeholder("place")>>), Item("place", NewYork)>>,
     <<Item("name", <<Text("C:"), Escape("n"), Text("ew")>>), Item("place", NewYork)>>,
     <<Item("name", <<Text("a"), Escape("d")>>), Item("place", NewYork)>>}

Pks == 1..MaxPrompts

\* an empty table and no request made
InitPrompts ==
    /\ config = NoConfig
    /\ switching = FALSE
    /\ session = NewSession(config)
    /\ request_count = 0
    /\ success_count = 0
    /\ error_count = 0
    /\ call = NoCall
    /\ pc = "serving"
    /\ warm_done = 0
    /\ seq_done = 0
    /\ results = EmptyDict
    /\ pool_size = 0
    /\ futures = <<>>
    /\ trace = <<>>
    /\ setup_calls = 0
    /\ teardown_calls = 0
    /\ test_result = NoResult
    /\ record = NoResult
    /\ comparison = NoComparison
    /\ command = NoCommand
    /\ prompts = EmptyDict
    /\ next_id = 1
    /\ response = NoResponse

\* POST /prompts/: PromptCreateSerializer and perform_create (views.py 60-64)
Create(user, data) ==
    /\ pc = "serving"
    /\ next_id <= MaxPrompts
    /\ IF SchemaRejected(data)
       THEN /\ response' = Response("create", user, 0, 400,
                                    [kind |-> "errors", errors |-> UndefinedVars(data)])
            /\ UNCHANGED <<prompts, next_id, harnessVars>>
       ELSE /\ prompts' = DictSet(prompts, next_id, NewPrompt(Validated(data), user))
            /\ next_id' = next_id + 1
            /\ response' = Response("create", user, next_id, 201,
                                    [kind |-> "created", body |-> Validated(data)])
    /\ UNCHANGED harnessVars

\* GET /prompts/: the rows of get_queryset
List(user) ==
    /\ pc = "serving"
    /\ response' = Response("list", user, 0, 200,
                            [kind |-> "list", count |-> Cardinality(Queryset(user)),
                             results |-> Queryset(user)])
    /\ UNCHANGED <<prompts, next_id, harnessVars>>

\* GET /prompts/{pk}/
Retrieve(user, pk) ==
    /\ pc = "serving"
    /\ response' = IF Found(user, pk)
                   THEN Response("retrieve", user, pk, 200, Serialized(pk))
                   ELSE NotFound("retrieve", user, pk)
    /\ UNCHANGED <<prompts, next_id, harnessVars>>

\* PUT /prompts/{pk}/: PromptSerializer.validate, then the row is saved
Update(user, pk, data) ==
    /\ pc = "serving"
    /\ IF ~Found(user, pk)
       THEN /\ response' = NotFound("update", user, pk)
            /\ UNCHANGED prompts
       ELSE IF SchemaRejected(data)
       THEN /\ response' = Response("update", user, pk, 400,
                                    [kind |-> "errors", errors |-> UndefinedVars(data)])
            /\ UNCHANGED prompts
       ELSE /\ prompts' = [prompts EXCEPT ![pk] = UpdatedPrompt(@, Validated(data))]
            /\ response' = Response("update", user, pk, 200,
                                    [kind |-> "updated", body |-> Validated(data)])
    /\ UNCHANGED <<next_id, harnessVars>>

\* DELETE /prompts/{pk}/
Destroy(user, pk) ==
    /\ pc = "serving"
    /\ IF Found(user, pk)
       THEN /\ prompts' = [id \in DOMAIN prompts \ {pk} |-> prompts[id]]
            /\ response' = Response("destroy", user, pk, 204, NoBody)
       ELSE /\ response' = NotFound("destroy", user, pk)
            /\ UNCHANGED prompts
    /\ UNCHANGED <<next_id, harnessVars>>

\* PATCH /prompts/{pk}/toggle_favorite/ (views.py 66-76); `before` is the row
\* as get_object read it
ToggleFavorite(user, pk) ==
    /\ pc = "serving"
    /\ IF Found(user, pk)
       THEN /\ prompts' = [prompts EXCEPT ![pk] = Toggled(@)]
            /\ response' = Response("toggle_favorite", user, pk, 200,
                                    [kind |-> "toggled", before |-> prompts[pk],
                                     favorite |-> Toggled(prompts[pk]).favorite])
       ELSE /\ response' = NotFound("toggle_favorite", user, pk)
            /\ UNCHANGED prompts
    /\ UNCHANGED <<next_id, harnessVars>>

\* POST /prompts/{pk}/render/ (views.py 78-110); an exception of re.sub is a
\* server error
Render(user, pk, variable_values) ==
    /\ pc = "serving"
    /\ response' =
         IF ~Found(user, pk) THEN NotFound("render", user, pk)
         ELSE IF RenderError(prompts[pk], variable_values) # "none"
         THEN Response("render", user, pk, 400,
                       [kind |-> "errors",
                        errors |-> RenderError(prompts[pk], variable_values),
                        variable_values |-> variable_values])
         ELSE LET out == RenderTemplate(prompts[pk].description, variable_values)
              IN  IF out.raised
                  THEN Response("render", user, pk, 500,
                                [kind |-> "exception",
                                 variable_values |-> variable_values])
                  ELSE Response("render", user, pk, 200,
                                [kind |-> "rendered",
                                 prompt_id |-> pk,
                                 title |-> prompts[pk].title,
                                 original_template |-> prompts[pk].description,
                                 rendered_text |-> out.text,
                                 variables_used |-> variable_values])
    /\ UNCHANGED <<prompts, next_id, harnessVars>>

\* GET /prompts/{pk}/variables/ (views.py 112-131)
Variables(user, pk) ==
    /\ pc = "serving"
    /\ response' =
         IF ~Found(user, pk) THEN NotFound("variables", user, pk)
         ELSE Response("variables", user, pk, 200,
                       [kind |-> "variables",
                        prompt_id |-> pk,
                        title |-> prompts[pk].title,
                        variables |->
                           [v \in ExtractVariables(prompts[pk].description) |->
                               IF v \in DOMAIN prompts[pk].variables_schema
                               THEN prompts[pk].variables_schema[v] ELSE "string"]])
    /\ UNCHANGED <<prompts, next_id, harnessVars>>

NextPrompts ==
    \/ \E user \in Users, data \in CreateData : Create(user, data)
    \/ \E user \in Users : List(user)
    \/ \E user \in Users, pk \in Pks : Retrieve(user, pk)
    \/ \E user \in Users, pk \in Pks, data \in UpdateData : Update(user, pk, data)
    \/ \E user \in Users, pk \in Pks : Destroy(user, pk)
    \/ \E user \in Users, pk \in Pks : ToggleFavorite(user, pk)
    \/ \E user \in Users, pk \in Pks, vv \in VariableValues : Render(user, pk, vv)
    \/ \E user \in Users, pk \in Pks : Variables(user, pk)

SpecPrompts == InitPrompts /\ [][NextPrompts]_vars

----------------------------------------------------------------------------
(* Claims about one _make_request call, checked under SpecRequest. *)

Called == call.state # "none"

\* C1: when session.request raises (timeout, connection error, any Exception),
\* _make_request does not raise: it returns an outcome with status_code = -1,
\* success = false, response_size = 0 and error = the exception's message.
C1_TransportFailureReturnsOutcome ==
    (Called /\ call.resp.kind = "exception") =>
        /\ call.state = "returned"
        /\ call.result.status_code = -1
        /\ call.result.success = FALSE
        /\ call.result.response_size = 0
        /\ call.result.error = call.resp.message
        /\ request_count = 1 /\ error_count = 1 /\ success_count = 0

C1_Witness ==
    /\ Called
    /\ call.resp.kind = "exception"
    /\ call.state = "returned"
    /\ call.result.error = TimedOut

\* C8: the Authorization header of the request is the RequestConfig's own when
\* it has one; otherwise 'Bearer <token>' when the config has a (non-empty)
\* auth_token; otherwise there is none.
C8_AuthorizationPrecedence ==
    Called =>
        IF "Authorization" \in DOMAIN call.req.headers
        THEN /\ "Authorization" \in DOMAIN call.headers
             /\ call.headers["Authorization"] = call.req.headers["Authorization"]
        ELSE IF config.auth_token # None /\ Len(config.auth_token) > 0
        THEN /\ "Authorization" \in DOMAIN call.headers
             /\ call.headers["Authorization"] =
                    <<"B", "e", "a", "r", "e", "r", " ">> \o config.auth_token
        ELSE "Authorization" \notin DOMAIN call.headers

\* a request with its own Authorization on a session that has a bearer token
C8_Witness ==
    /\ Called
    /\ "Authorization" \in DOMAIN call.req.headers
    /\ "Authorization" \in DOMAIN session.headers
    /\ session.headers["Authorization"] # call.req.headers["Authorization"]
    /\ call.headers["Authorization"] = OwnAuthorization

\* the session's csrftoken cookie was put into the request's X-CSRFToken
CsrfFromSession ==
    /\ "X-CSRFToken" \in DOMAIN call.headers
    /\ "X-CSRFToken" \notin DOMAIN call.req.headers

\* C9: X-CSRFToken is taken from the session's csrftoken cookie if and only if
\* the method is POST, PUT, PATCH or DELETE, the RequestConfig sets no
\* X-CSRFToken and the cookie is present and non-empty; a RequestConfig's own
\* X-CSRFToken is sent as it is.
C9_CsrfAttachedIff ==
    Called =>
        /\ CsrfFromSession <=>
              /\ call.req.method \in {"POST", "PUT", "PATCH", "DELETE"}
              /\ "X-CSRFToken" \notin DOMAIN call.req.headers
              /\ "csrftoken" \in DOMAIN session.cookies
              /\ Len(session.cookies["csrftoken"]) > 0
        /\ CsrfFromSession => call.headers["X-CSRFToken"] = session.cookies["csrftoken"]
        /\ "X-CSRFToken" \in DOMAIN call.req.headers =>
              call.headers["X-CSRFToken"] = call.req.headers["X-CSRFToken"]

C9_Witness ==
    /\ Called
    /\ call.req.method = "DELETE"
    /\ CsrfFromSession
    /\ call.headers["X-CSRFToken"] = CsrfCookie

\* C10: a received response is a success exactly when 200 <= status < 300; any
\* other is returned, not raised, with success = false, its status code, and
\* error = the first 500 characters of the body; a success has error = None.
C10_SuccessIs2xx ==
    (Called /\ call.resp.kind = "http") =>
        LET status == call.resp.status
            text   == call.resp.text
            error  == call.result.error
        IN  /\ call.state = "returned"
            /\ call.result.status_code = status
            /\ call.result.success <=> (status >= 200 /\ status <= 299)
            /\ call.result.success => error = None
            /\ ~call.result.success =>
                  /\ Len(error) = IF Len(text) <= 500 THEN Len(text) ELSE 500
                  /\ \A i \in 1..Len(error) : error[i] = text[i]

\* a 300 answered with more than 500 characters
C10_Witness ==
    /\ Called
    /\ call.resp.kind = "http"
    /\ call.resp.status = 300
    /\ Len(call.resp.text) > 500
    /\ ~call.result.success
    /\ Len(call.result.error) = 500

----------------------------------------------------------------------------
(* Claims about run(), checked under Spec (C7 under FairSpec). *)

\* the outcomes in the lists of `results`
Recorded == UNION {{results[e][i] : i \in 1..Len(results[e])} : e \in DOMAIN results}

RECURSIVE SumOfLengths(_, _)
SumOfLengths(res, keys) ==
    IF keys = {} THEN 0
    ELSE LET e == CHOOSE x \in keys : TRUE
         IN  Len(res[e]) + SumOfLengths(res, keys \ {e})

TotalRecorded == SumOfLengths(results, DOMAIN results)

\* the measured requests of the config, as <<phase, iteration, index>>
MeasuredTags ==
    {<<"measured", i, j>> : i \in 1..config.iterations, j \in 1..Len(config.requests)}

TraceTags(phase) == {k \in 1..Len(trace) : trace[k][1] = phase}

DistinctEndpoints ==
    \A i, j \in 1..Len(config.requests) :
        i # j => config.requests[i].endpoint # config.requests[j].endpoint

\* C2: whatever requests fail (transport failures, non-2xx answers), in either
\* mode the run is never aborted, and when run() returns every one of the
\* iterations * len(requests) measured requests was made and is recorded.
C2_FailureNeverAborts ==
    /\ pc # "raised"
    /\ pc = "done" =>
          /\ {trace[k] : k \in TraceTags("measured")} = MeasuredTags
          /\ Cardinality(TraceTags("measured")) = config.iterations * Len(config.requests)
          /\ {r.task : r \in Recorded} = MeasuredTags
          /\ TotalRecorded = config.iterations * Len(config.requests)

\* a concurrent run of four requests that all failed, in both ways, and returned
C2_Witness ==
    /\ pc = "done"
    /\ config.concurrent
    /\ TotalRecorded = 4
    /\ \A r \in Recorded : ~r.success
    /\ \E r \in Recorded : r.status_code = -1
    /\ \E r \in Recorded : r.status_code = 500

\* b is the request made right after a: the next request of the iteration, the
\* first of the next iteration, or the first measured one after the last
\* warm-up one
NextInOrder(a, b) ==
    LET n == Len(config.requests)
    IN  \/ a[1] = b[1] /\ b[2] = a[2] /\ b[3] = a[3] + 1
        \/ a[1] = b[1] /\ b[2] = a[2] + 1 /\ a[3] = n /\ b[3] = 1
        \/ /\ a = <<"warmup", config.warm_up_iterations, n>>
           /\ b = <<"measured", 1, 1>>

\* C3: in sequential mode with distinct endpoint paths the requests are made
\* iteration-major and in spec order within an iteration; the k-th outcome of
\* an endpoint's list is that of its request in iteration k; at the end every
\* list has `iterations` outcomes; the warm-up outcomes are in no list.
C3_SequentialOrder ==
    (~config.concurrent /\ DistinctEndpoints) =>
        /\ Len(trace) > 0 =>
              trace[1] = <<IF config.warm_up_iterations > 0 THEN "warmup" ELSE "measured", 1, 1>>
        /\ \A k \in 1..(Len(trace) - 1) : NextInOrder(trace[k], trace[k + 1])
        /\ \A e \in DOMAIN results : \A k \in 1..Len(results[e]) :
              /\ results[e][k].task[1] = "measured"
              /\ results[e][k].task[2] = k
              /\ config.requests[results[e][k].task[3]].endpoint = e
        /\ pc = "done" =>
              /\ DOMAIN results =
                    {config.requests[j].endpoint : j \in 1..Len(config.requests)}
              /\ \A e \in DOMAIN results : Len(results[e]) = config.iterations
              /\ Cardinality(TraceTags("warmup")) =
                    config.warm_up_iterations * Len(config.requests)

C3_Witness ==
    /\ pc = "done"
    /\ ~config.concurrent
    /\ DistinctEndpoints
    /\ Len(config.requests) = 2
    /\ config.iterations = 2
    /\ config.warm_up_iterations = 1
    /\ \A e \in DOMAIN results : Len(results[e]) = 2

\* the tasks of the task list whose request has endpoint e
TasksOf(e) ==
    {t \in 1..(config.iterations * Len(config.requests)) :
        config.requests[((t - 1) % Len(config.requests)) + 1].endpoint = e}

CollectedOf(e) ==
    {t \in DOMAIN futures : futures[t].state = "collected" /\ t \in TasksOf(e)}

\* no list holds an outcome twice, every outcome in a list is the result of a
\* collected future of that endpoint, and none of those is missing
C4_NoneLostOrDuplicated ==
    config.concurrent =>
        /\ \A e \in DOMAIN results :
              /\ \A i, j \in 1..Len(results[e]) :
                    i # j => results[e][i].task # results[e][j].task
              /\ \A i \in 1..Len(results[e]) :
                    \E t \in CollectedOf(e) : futures[t].result = results[e][i]
              /\ Len(results[e]) = Cardinality(CollectedOf(e))
        /\ pc \in {"teardown", "summarize", "done"} =>
              \A e \in DOMAIN results :
                  /\ Len(results[e]) = Cardinality(TasksOf(e))
                  /\ DistinctEndpoints => Len(results[e]) = config.iterations

\* a step of a pool thread: a future moves into a state a worker puts it in
PoolThreadStep ==
    \E t \in DOMAIN futures' :
        /\ t \in DOMAIN futures
        /\ futures'[t].state # futures[t].state
        /\ futures'[t].state \in WorkerStates \cup {"finished", "failed"}

\* C4: in concurrent mode, whatever the order in which the requests complete,
\* no outcome is lost or duplicated (when the run returns each list holds one
\* outcome per task of its endpoint, `iterations` for a distinct endpoint), and
\* the lists are appended to by the calling thread only, never by a pool thread.
C4_ConcurrentCollection ==
    /\ []C4_NoneLostOrDuplicated
    /\ [][results' # results => (~PoolThreadStep /\ pc \in {"start", "measure", "collect"})]_vars

\* two outcomes of one endpoint collected against the order of submission
C4_Witness ==
    /\ pc = "done"
    /\ config.concurrent
    /\ \E e \in DOMAIN results :
          /\ Len(results[e]) = 2
          /\ results[e][1].task[2] = 2
          /\ results[e][2].task[2] = 1

\* C5: in concurrent mode the warm-up requests are made on the calling thread
\* before the pool exists, and all warm_up_iterations * len(requests) of them
\* are done before the first measured task is submitted.
C5_WarmUpBeforePool ==
    config.concurrent =>
        /\ pc = "warmup" => futures = <<>> /\ pool_size = 0
        /\ Len(futures) > 0 =>
              /\ warm_done = config.warm_up_iterations * Len(config.requests)
              /\ TraceTags("warmup") = 1..(config.warm_up_iterations * Len(config.requests))

C5_Witness ==
    /\ config.concurrent
    /\ config.warm_up_iterations = 1
    /\ Len(config.requests) = 2
    /\ Active # {}
    /\ Cardinality(TraceTags("warmup")) = 2

\* C6: in concurrent mode at most max_workers measured requests are being made
\* at once, the other submitted tasks wait in the queue, and the pool's size,
\* set from max_workers, does not change.
C6_BoundedPool ==
    /\ [](config.concurrent =>
            /\ Cardinality({t \in DOMAIN futures :
                              futures[t].state \notin {"queued", "finished", "failed", "collected"}})
                  <= config.max_workers
            /\ pool_size # 0 => pool_size = config.max_workers)
    /\ [][pool_size # 0 => pool_size' = pool_size]_vars

\* every thread of a pool of two busy and a task waiting
C6_Witness ==
    /\ config.max_workers = 2
    /\ Cardinality({t \in DOMAIN futures : futures[t].state = "running"}) = 2
    /\ \E t \in DOMAIN futures : futures[t].state = "queued"

\* run() has returned with every task completed and collected
Returned ==
    /\ pc = "done"
    /\ config.concurrent => AllCollected(futures)
    /\ ~config.concurrent => seq_done = config.iterations * Len(config.requests)

\* C7: if every request sent is answered or times out and the threads keep
\* being scheduled, run() terminates in both modes with every submitted task
\* completed and collected; the run does not leave the pool while a request is
\* being made.
C7_RunTerminates ==
    /\ <>Returned
    /\ [](Active # {} => pc \in {"submit", "collect"})

C7_Witness ==
    /\ Returned
    /\ config.concurrent
    /\ Len(futures) = 4
    /\ \E t \in DOMAIN futures : futures[t].result.status_code = -1

----------------------------------------------------------------------------
(* Claims about TestResult, checked under SpecSummary. *)

\* calculate_summary was the last call on the TestResult
Calculated == pc = "calculated"

\* the successful outcomes of a list, counted on the list itself
SuccessCount(list) == Cardinality({i \in DOMAIN list : list[i].success})

C12_RowIffSuccess ==
    Calculated =>
        LET rr == test_result.request_results
        IN  /\ DOMAIN test_result.summary = {e \in DOMAIN rr : SuccessCount(rr[e]) > 0}
            /\ \A e \in DOMAIN test_result.summary :
                  test_result.summary[e] = CalculateSummary([x \in {e} |-> rr[e]])[e]

\* one endpoint failed on every request and has no row, the other has its row
C12_Witness ==
    /\ Calculated
    /\ \E e, f \in DOMAIN test_result.request_results :
          /\ test_result.request_results[e] # <<>>
          /\ SuccessCount(test_result.request_results[e]) = 0
          /\ e \notin DOMAIN test_result.summary
          /\ f \in DOMAIN test_result.summary
          /\ test_result.summary[f].successful_requests = 1

\* C13: in a summary just calculated, with n the number of successful
\* outcomes of the endpoint: p95_time is None when n < 20 and a value with
\* min_time <= p95_time <= max_time when n >= 20; p99_time is None when
\* n < 100 and a value when n >= 100.
C13_PercentileGating ==
    Calculated =>
        \A e \in DOMAIN test_result.summary :
            LET row == test_result.summary[e]
                n   == SuccessCount(test_result.request_results[e])
            IN  /\ n < P95MinSamples => row.p95_time = NoneFloat
                /\ n >= P95MinSamples =>
                      /\ row.p95_time # NoneFloat
                      /\ Leq(row.min_time, row.p95_time)
                      /\ Leq(row.p95_time, row.max_time)
                /\ n < P99MinSamples => row.p99_time = NoneFloat
                /\ n >= P99MinSamples => row.p99_time # NoneFloat

\* a row of 100 or more outcomes of which fewer than 100 succeeded: it has a
\* 95th percentile and no 99th
C13_Witness ==
    /\ Calculated
    /\ \E e \in DOMAIN test_result.summary :
          /\ Len(test_result.request_results[e]) >= P99MinSamples
          /\ SuccessCount(test_result.request_results[e]) < P99MinSamples
          /\ SuccessCount(test_result.request_results[e]) >= P95MinSamples
          /\ test_result.summary[e].p95_time # NoneFloat
          /\ test_result.summary[e].p99_time = NoneFloat

\* v stands at index k (from 0) of the ascending sort of the successful
\* elapsed times of list: at most k of them are below v and more than k of
\* them are v or below
AtSortedIndex(v, list, k) ==
    /\ Cardinality({j \in DOMAIN list :
                       list[j].success /\ list[j].elapsed_time < v}) <= k
    /\ k < Cardinality({j \in DOMAIN list :
                           list[j].success /\ list[j].elapsed_time <= v})

\* C14: a percentile that a summary just calculated holds is the element at
\* index floor(n * 0.95) (floor(n * 0.99)) of the ascending-sorted successful
\* elapsed times, and that index is below n.
C14_PercentileIsSortedElement ==
    Calculated =>
        \A e \in DOMAIN test_result.summary :
            LET row  == test_result.summary[e]
                list == test_result.request_results[e]
                n    == SuccessCount(list)
            IN  /\ n >= P95MinSamples =>
                      /\ (n * 95) \div 100 < n
                      /\ row.p95_time.den = 1
                      /\ AtSortedIndex(row.p95_time.num, list, (n * 95) \div 100)
                /\ n >= P99MinSamples =>
                      /\ (n * 99) \div 100 < n
                      /\ row.p99_time.den = 1
                      /\ AtSortedIndex(row.p99_time.num, list, (n * 99) \div 100)

\* both percentiles were taken of a list that was not recorded in ascending
\* order, and the 99th is above the 95th
C14_Witness ==
    /\ Calculated
    /\ \E e \in DOMAIN test_result.summary :
          LET list == test_result.request_results[e]
          IN  /\ SuccessCount(list) > P99MinSamples
              /\ \E j \in DOMAIN list : list[j].elapsed_time > list[Len(list)].elapsed_time
              /\ test_result.summary[e].p95_time.num < test_result.summary[e].p99_time.num

\* lists of up to MaxPermuted outcomes are rearranged in every way
MaxPermuted == 4

\* the rearrangements of a list of n outcomes that are tried: all of them for
\* a short list; the reversal, the rotation by one and the exchange of the
\* two ends for a long one
Rearrangements(n) ==
    IF n <= MaxPermuted
    THEN Permutations(1..n)
    ELSE {[i \in 1..n |-> n + 1 - i],
          [i \in 1..n |-> (i % n) + 1],
          [i \in 1..n |-> IF i = 1 THEN n ELSE IF i = n THEN 1 ELSE i]}

\* C15: the summary just calculated is the summary of every rearrangement
\* of any endpoint's outcome list.
C15_OrderIndependent ==
    Calculated =>
        \A e \in DOMAIN test_result.request_results :
            LET list == test_result.request_results[e]
            IN  \A p \in Rearrangements(Len(list)) :
                    CalculateSummary([test_result.request_results EXCEPT
                                         ![e] = [i \in DOMAIN list |-> list[p[i]]]])
                        = test_result.summary

\* a summary was calculated of a list whose successful outcomes are in
\* descending order of elapsed time
C15_Witness ==
    /\ Calculated
    /\ \E e \in DOMAIN test_result.summary :
          LET list == test_result.request_results[e]
          IN  /\ Len(list) >= 3
              /\ list[1].success /\ list[Len(list)].success
              /\ list[1].elapsed_time > list[Len(list)].elapsed_time

\* C16: the summary of a dict that to_dict has just returned is the summary
\* calculated from that dict's request_results, whatever appends,
\* calculate_summary calls and to_dict calls came before.
C16_SerializedSummaryIsDerived ==
    pc = "serialized" => record.summary = CalculateSummary(record.request_results)

----------------------------------------------------------------------------
(* Claims about compare_runs, checked under SpecCompare. *)

\* compare_test_results has returned
Compared == comparison.state = "returned"

\* compare_test_results has returned or raised
CompareEnded == comparison.state \in {"returned", "raised"}

\* the fraction x is n / d, d # 0
IsValue(x, n, d) == x.den > 0 /\ x.num * d = n * x.den

LatencyKeys == {"mean_time", "median_time", "min_time", "max_time"}

\* the metric of a record's row, as a fraction: total_requests is an integer
Stat(run, e, key) ==
    IF key = "total_requests"
    THEN [num |-> run.summary[e][key], den |-> 1]
    ELSE run.summary[e][key]

\* the multiplier the table shows a metric with
Multiplier(key) ==
    IF key \in LatencyKeys THEN 1000 ELSE IF key = "success_rate" THEN 100 ELSE 1

\* C17: in every row of the comparison table v1 and v2 are the metric values
\* of run 1 and run 2, diff = v2 - v1, and the percentage change is
\* (v2 - v1) / v1 * 100 when v1 # 0 and 0 when v1 = 0.
C17_DiffAndPctChange ==
    Compared =>
        \A c \in DOMAIN comparison.table.rows :
            LET row == comparison.table.rows[c]
                s1  == Stat(comparison.results1, c[1], c[2])
                s2  == Stat(comparison.results2, c[1], c[2])
                v1  == row.val1
                v2  == row.val2
                gap == v2.num * v1.den - v1.num * v2.den
            IN  /\ IsValue(v1, s1.num * Multiplier(c[2]), s1.den)
                /\ IsValue(v2, s2.num * Multiplier(c[2]), s2.den)
                /\ IsValue(row.diff, gap, v1.den * v2.den)
                /\ IF v1.num # 0
                   THEN IsValue(row.pct_change, 100 * gap, v2.den * v1.num)
                   ELSE row.pct_change.num = 0

\* the table has a row whose run-1 value is 0 and whose run-2 value is not,
\* and a row whose percentage change is not a whole number
C17_Witness ==
    /\ Compared
    /\ \E c \in DOMAIN comparison.table.rows :
          /\ comparison.table.rows[c].val1.num = 0
          /\ comparison.table.rows[c].val2.num # 0
          /\ comparison.table.rows[c].pct_change.num = 0
    /\ \E c \in DOMAIN comparison.table.rows :
          /\ comparison.table.rows[c].val1.num # 0
          /\ comparison.table.rows[c].pct_change.den > 1

\* C18: a comparison returns, with rows for exactly the endpoints in both
\* summaries; when there is none it returns the placeholder table and no
\* improvement chart, and the report is still written.
C18_CommonEndpointsOrPlaceholder ==
    CompareEnded =>
        LET common == DOMAIN comparison.results1.summary
                         \cap DOMAIN comparison.results2.summary
        IN  /\ comparison.state = "returned"
            /\ {c[1] : c \in DOMAIN comparison.table.rows} = common
            /\ "html_report" \in comparison.output_files
            /\ common = {} =>
                  /\ comparison.table.placeholder
                  /\ comparison.chart.file = None
                  /\ "response_time_improvement" \notin comparison.output_files

\* C19: a latency row is green exactly when diff <= 0 and red otherwise, a
\* success-rate row is green exactly when diff >= 0 and red otherwise, and a
\* request-count row is neither.
C19_SignConvention ==
    Compared =>
        \A c \in DOMAIN comparison.table.rows :
            LET row == comparison.table.rows[c]
            IN  /\ c[2] \in LatencyKeys =>
                      row.color = IF row.diff.num <= 0 THEN "green" ELSE "red"
                /\ c[2] = "success_rate" =>
                      row.color = IF row.diff.num >= 0 THEN "green" ELSE "red"
                /\ c[2] = "total_requests" => row.color \notin {"green", "red"}

\* one table with a slower latency row marked red, an unchanged latency row
\* marked green and a higher success rate marked green
C19_Witness ==
    /\ Compared
    /\ \E c \in DOMAIN comparison.table.rows :
          /\ c[2] \in LatencyKeys
          /\ comparison.table.rows[c].diff.num > 0
          /\ comparison.table.rows[c].color = "red"
    /\ \E c \in DOMAIN comparison.table.rows :
          /\ c[2] \in LatencyKeys
          /\ comparison.table.rows[c].diff.num = 0
          /\ comparison.table.rows[c].color = "green"
    /\ \E c \in DOMAIN comparison.table.rows :
          /\ c[2] = "success_rate"
          /\ comparison.table.rows[c].diff.num > 0
          /\ comparison.table.rows[c].color = "green"

\* C20: for every shared endpoint and latency metric, the diff of comparing
\* (A, B) is minus the diff of comparing (B, A), and when both values are not
\* 0 the percentage changes p and q (as fractions of 100) give
\* (1 + p)(1 + q) = 1.
C20_Symmetry ==
    Compared =>
        LET back == StatsTable(comparison.results2, comparison.results1)
        IN  /\ DOMAIN back.rows = DOMAIN comparison.table.rows
            /\ \A c \in DOMAIN comparison.table.rows :
                  c[2] \in LatencyKeys =>
                      LET ab == comparison.table.rows[c]
                          ba == back.rows[c]
                          p  == ab.pct_change
                          q  == ba.pct_change
                      IN  /\ ab.diff.num = -ba.diff.num
                          /\ ab.diff.den = ba.diff.den
                          /\ (ab.val1.num # 0 /\ ab.val2.num # 0) =>
                                (100 * p.den + p.num) * (100 * q.den + q.num)
                                    = 10000 * p.den * q.den

\* a latency row of two different non-zero values
C20_Witness ==
    /\ Compared
    /\ \E c \in DOMAIN comparison.table.rows :
          /\ c[2] \in LatencyKeys
          /\ comparison.table.rows[c].val1.num # 0
          /\ comparison.table.rows[c].val2.num # 0
          /\ comparison.table.rows[c].diff.num # 0

\* C21: every bar of the improvement chart stands for a shared endpoint, with
\* the two means in milliseconds, improvement = (mean1 - mean2) / mean1 * 100
\* (0 when mean1 is not positive), absolute_diff = mean1 - mean2, and green
\* exactly when improvement >= 0; a run-1 mean twice the run-2 mean gives
\* +50 %, the run-2 mean as absolute_diff, green.
C21_ImprovementFigure ==
    Compared =>
        /\ DOMAIN comparison.chart.bars
              = DOMAIN comparison.results1.summary \cap DOMAIN comparison.results2.summary
        /\ \A e \in DOMAIN comparison.chart.bars :
              LET bar == comparison.chart.bars[e]
                  m1  == comparison.results1.summary[e].mean_time
                  m2  == comparison.results2.summary[e].mean_time
                  t1  == bar.run1_time
                  t2  == bar.run2_time
                  gap == t1.num * t2.den - t2.num * t1.den
              IN  /\ IsValue(t1, 1000 * m1.num, m1.den)
                  /\ IsValue(t2, 1000 * m2.num, m2.den)
                  /\ IsValue(bar.absolute_diff, gap, t1.den * t2.den)
                  /\ IF t1.num > 0
                     THEN IsValue(bar.improvement, 100 * gap, t2.den * t1.num)
                     ELSE bar.improvement.num = 0
                  /\ bar.color = IF bar.improvement.num >= 0 THEN "green" ELSE "red"
                  /\ (t1.num > 0 /\ t1.num * t2.den = 2 * t2.num * t1.den) =>
                        /\ bar.improvement = Float(50)
                        /\ bar.absolute_diff = t2
                        /\ bar.color = "green"

\* the chart has a bar of a run-1 mean twice the run-2 mean, and the same two
\* records have a second shared endpoint
C21_Witness ==
    /\ Compared
    /\ \E e \in DOMAIN comparison.chart.bars :
          /\ comparison.chart.bars[e].run2_time.num > 0
          /\ comparison.chart.bars[e].run1_time.num * comparison.chart.bars[e].run2_time.den
                = 2 * comparison.chart.bars[e].run2_time.num
                    * comparison.chart.bars[e].run1_time.den
          /\ comparison.chart.bars[e].improvement = Float(50)
    /\ Cardinality(DOMAIN comparison.chart.bars) = 2

----------------------------------------------------------------------------
(* Claims about the command and about run() on any configuration, checked   *)
(* under SpecCommand.                                                       *)

\* the tester is constructed on a configuration without requests
EmptyEndpointList == config # NoConfig /\ config.requests = <<>>

\* C22: a configuration error is fatal before any request is made: when the
\* configured endpoint list is empty the run is aborted with an error (it does
\* not go on to its teardown and its result) and no HTTP request, warm-up or
\* measured, is issued. The command's selection of no valid endpoint exits
\* before a tester exists; run() on a TestConfig with requests = [] is the
\* case that fails.
C22_EmptyEndpointListIsFatal ==
    /\ command.state = "exited" =>
          /\ config = NoConfig
          /\ trace = <<>>
          /\ test_result = NoResult
    /\ EmptyEndpointList =>
          /\ pc \in {"start", "raised"}
          /\ trace = <<>>
          /\ test_result = NoResult

\* the command has saved the record of its run
Saved == command.state = "saved"

\* the configured requests that share the endpoint path e
SpecsWithPath(e) ==
    Cardinality({i \in DOMAIN config.requests : config.requests[i].endpoint = e})

\* the non-successful outcomes of a list, counted on the list itself
FailureCount(list) == Cardinality({i \in DOMAIN list : ~list[i].success})

\* C23: a run in which requests fail still produces a complete record with
\* accurate failure counts: for every configured endpoint, one where every
\* request failed included, the saved record holds all of the endpoint's
\* outcomes and its summary reports failed_requests = the number of
\* non-successful outcomes in the endpoint's list.
C23_FailedRunRecordIsComplete ==
    Saved =>
        \A i \in DOMAIN config.requests :
            LET e == config.requests[i].endpoint
            IN  /\ e \in DOMAIN record.request_results
                /\ Len(record.request_results[e]) = config.iterations * SpecsWithPath(e)
                /\ e \in DOMAIN record.summary
                /\ record.summary[e].failed_requests =
                      FailureCount(record.request_results[e])

----------------------------------------------------------------------------
(* Claims about the prompts API, checked under SpecPrompts. *)

\* the requests that address one prompt and are answered from get_object
ObjectActions == {"retrieve", "update", "destroy", "toggle_favorite", "render"}

\* the rows whose creator, as recorded when they were created, is the user
OwnedBy(table, user) == {id \in DOMAIN table : table[id].created_by = user}

\* C24: prompts are isolated per owner. A created row records the user who
\* posted it and keeps that owner; a list answers exactly the rows its user
\* created; and a retrieve / update / destroy / toggle_favorite / render
\* request for a row created by another user is answered 404 and leaves the
\* table as it was.
C24_OwnerIsolation ==
    [][/\ (response'.action = "create" /\ response'.status_code = 201) =>
             /\ response'.pk \notin DOMAIN prompts
             /\ DOMAIN prompts' = DOMAIN prompts \cup {response'.pk}
             /\ prompts'[response'.pk].created_by = response'.user
       /\ \A id \in DOMAIN prompts \cap DOMAIN prompts' :
             prompts'[id].created_by = prompts[id].created_by
       /\ response'.action = "list" =>
             /\ response'.status_code = 200
             /\ response'.data.results = OwnedBy(prompts', response'.user)
             /\ response'.data.count = Cardinality(OwnedBy(prompts', response'.user))
       /\ (/\ response'.action \in ObjectActions
           /\ response'.pk \in DOMAIN prompts
           /\ prompts[response'.pk].created_by # response'.user) =>
             /\ response'.status_code = 404
             /\ prompts' = prompts]_vars

\* a user who owns a row asked to update another user's row, and got 404
C24_Witness ==
    /\ response.action = "update"
    /\ response.status_code = 404
    /\ response.pk \in DOMAIN prompts
    /\ prompts[response.pk].created_by # response.user
    /\ OwnedBy(prompts, response.user) # {}

\* a render request reached its prompt
Rendered == response.action = "render" /\ response.status_code # 404

\* the variable_values of the render request answered last
Supplied ==
    IF response.data.kind = "rendered"
    THEN response.data.variables_used ELSE response.data.variable_values

SuppliedNames == {Supplied[i].name : i \in DOMAIN Supplied}

SuppliedValue(name) ==
    Supplied[CHOOSE i \in DOMAIN Supplied : Supplied[i].name = name].value

\* the names between {{ and }} in the template of the prompt rendered
TemplateNames ==
    LET template == prompts[response.pk].description
    IN  {template[i].text :
            i \in {j \in DOMAIN template : template[j].kind = "placeholder"}}

\* the template with every placeholder replaced by the value supplied for it
Substituted ==
    LET template == prompts[response.pk].description
    IN  Flatten([i \in DOMAIN template |->
                    IF template[i].kind = "placeholder"
                    THEN SuppliedValue(template[i].text)
                    ELSE <<template[i]>>])

\* the acceptance half of C25: 400 with the message for a missing or an
\* unknown name, and no 400 when the names are those of the template
RenderValidation ==
    Rendered =>
        /\ response.status_code = 400 <=> SuppliedNames # TemplateNames
        /\ TemplateNames \ SuppliedNames # {} =>
              response.data.errors = "Missing values for variables"
        /\ (TemplateNames \subseteq SuppliedNames /\ SuppliedNames # TemplateNames) =>
              response.data.errors = "Unknown variables provided"

\* C25: rendering is accepted if and only if the names provided are the names
\* extracted from the template: a missing name is rejected with 'Missing
\* values for variables' and an extra one (none missing) with 'Unknown
\* variables provided', both 400 and nothing rendered; when accepted, the
\* answer is 200 and its rendered_text is the template with every
\* {{ name }} placeholder replaced by the value supplied for name.
C25_RenderAcceptsExactNamesAndSubstitutes ==
    /\ RenderValidation
    /\ Rendered =>
          /\ response.status_code = 200 <=> SuppliedNames = TemplateNames
          /\ response.status_code = 200 =>
                response.data.rendered_text = Substituted

\* the owner's toggle_favorite request was served
ToggleServed(r) == r.action = "toggle_favorite" /\ r.status_code = 200

\* C26: toggle_favorite flips the favorite flag on each call and changes
\* nothing else: the row's title, description, variables_schema and owner and
\* every other row stay as they were, and the second of two consecutive
\* toggles of a prompt restores the row the first one found. By induction the
\* flag after n toggles is the initial one for even n and its negation for
\* odd n.
C26_ToggleFlipsFavoriteOnly ==
    [][ToggleServed(response') =>
          /\ response'.pk \in DOMAIN prompts
          /\ DOMAIN prompts' = DOMAIN prompts
          /\ prompts'[response'.pk].favorite = ~prompts[response'.pk].favorite
          /\ response'.data.favorite = prompts'[response'.pk].favorite
          /\ prompts'[response'.pk].title = prompts[response'.pk].title
          /\ prompts'[response'.pk].description = prompts[response'.pk].description
          /\ prompts'[response'.pk].variables_schema =
                prompts[response'.pk].variables_schema
          /\ prompts'[response'.pk].created_by = prompts[response'.pk].created_by
          /\ \A id \in DOMAIN prompts \ {response'.pk} : prompts'[id] = prompts[id]
          /\ (ToggleServed(response) /\ response.pk = response'.pk) =>
                prompts'[response'.pk] = response.data.before]_vars

\* a favorite prompt of a template with variables was toggled to not favorite
C26_Witness ==
    /\ ToggleServed(response)
    /\ response.data.before.favorite
    /\ ~prompts[response.pk].favorite
    /\ prompts[response.pk].variables_schema # EmptyDict

----------------------------------------------------------------------------
(* Further claims about run(), checked under Spec. *)

\* C27: each executed request, warm-up or measured, adds one to request_count
\* and one to exactly one of success_count and error_count, so that when run()
\* returns request_count = (warm_up_iterations + iterations) * len(requests)
\* and success_count + error_count = request_count, in concurrent mode too,
\* where the pool's threads update the counters without a lock.
C27_CountersAreExact ==
    Returned =>
        /\ request_count = (config.warm_up_iterations + config.iterations) * NumRequests
        /\ success_count + error_count = request_count

\* the session headers __init__ leaves: the defaults, and the bearer token of
\* a config that has one
HeadersAtConstruction ==
    IF config.auth_token # None /\ config.auth_token # <<>>
    THEN [h \in DOMAIN DefaultHeaders \cup {"Authorization"} |->
             IF h = "Authorization"
             THEN <<"B", "e", "a", "r", "e", "r", " ">> \o config.auth_token
             ELSE DefaultHeaders[h]]
    ELSE DefaultHeaders

\* C28: executing a request leaves the caller's configuration and the shared
\* session headers unchanged: the Authorization and CSRF headers are merged
\* into a per-request copy, so after any number of requests, in either mode,
\* every request's headers and the TestConfig are as the caller supplied them
\* and the session's headers are as set at construction.
C28_ConfigAndSessionHeadersUnchanged ==
    /\ [][config' = config /\ session'.headers = session.headers]_vars
    /\ [](session.headers = HeadersAtConstruction)

\* a concurrent run has returned after sending, with the session's
\* Authorization merged in, a request whose own headers have none
C28_Witness ==
    /\ pc = "done"
    /\ config.concurrent
    /\ "Authorization" \in DOMAIN session.headers
    /\ \E j \in DOMAIN trace :
          /\ trace[j][1] = "measured"
          /\ "Authorization" \notin DOMAIN config.requests[trace[j][3]].headers
    /\ \E i \in DOMAIN config.requests :
          "Authorization" \in DOMAIN config.requests[i].headers

\* the endpoint paths of the configured requests
ConfiguredPaths == {config.requests[i].endpoint : i \in DOMAIN config.requests}

\* the entries of the outcome lists of the TestResult: <<path, position>>
ListEntries ==
    UNION {{<<e, i>> : i \in DOMAIN test_result.request_results[e]} :
              e \in DOMAIN test_result.request_results}

\* C29: the outcome lists are keyed by endpoint path only: requests of one
\* config that share a path share one list, whose length is iterations * the
\* number of requests with that path; every measured request's outcome is at
\* exactly one place of exactly one list, and the lengths sum to
\* iterations * len(requests).
C29_ListsKeyedByPath ==
    Returned =>
        /\ DOMAIN test_result.request_results = ConfiguredPaths
        /\ \A e \in ConfiguredPaths :
              Len(test_result.request_results[e]) = config.iterations * SpecsWithPath(e)
        /\ Cardinality(ListEntries) = config.iterations * NumRequests
        /\ \A x, y \in ListEntries :
              test_result.request_results[x[1]][x[2]].task =
                 test_result.request_results[y[1]][y[2]].task => x = y
        /\ \A x \in ListEntries :
              config.requests[test_result.request_results[x[1]][x[2]].task[3]].endpoint
                 = x[1]

\* a concurrent run of two iterations of a GET and a POST on one path has
\* returned: one list of four outcomes
C29_Witness ==
    /\ Returned
    /\ config.concurrent
    /\ config.iterations = 2
    /\ NumRequests = 2
    /\ config.requests[1].method # config.requests[2].method
    /\ Cardinality(ConfiguredPaths) = 1
    /\ \A e \in DOMAIN test_result.request_results :
          Len(test_result.request_results[e]) = 4

\* the tasks of the pool handed in and not yet finished
InFlight ==
    {t \in DOMAIN futures : futures[t].state \notin {"finished", "failed", "collected"}}

\* the outcomes appended so far to the runner's lists
AppendedOutcomes ==
    UNION {{<<e, i>> : i \in DOMAIN results[e]} : e \in DOMAIN results}

\* how often a hook that may be absent is to be called
CallsDue(hook) == IF hook THEN 1 ELSE 0

\* C30: in run() the optional setup function is called exactly once, before
\* the first request (warm-up included) is issued, and the optional teardown
\* function exactly once, after the last measured outcome has been collected
\* and before the summary is computed, in sequential and in concurrent mode;
\* no request is in flight when teardown runs.
C30_SetupAndTeardownOnce ==
    /\ [](setup_calls <= 1 /\ teardown_calls <= 1)
    /\ [](trace # <<>> => setup_calls = CallsDue(config.setup_function))
    /\ [](test_result # NoResult =>
             teardown_calls = CallsDue(config.teardown_function))
    /\ [][setup_calls' # setup_calls => trace = <<>>]_vars
    /\ [][teardown_calls' # teardown_calls =>
             /\ test_result = NoResult
             /\ Cardinality(AppendedOutcomes) = config.iterations * NumRequests
             /\ Len(trace) = (config.warm_up_iterations + config.iterations) * NumRequests
             /\ InFlight = {}
             /\ trace' = trace]_vars

\* a concurrent run with warm-up and both hooks has returned
C30_Witness ==
    /\ pc = "done"
    /\ config.concurrent
    /\ config.warm_up_iterations = 1
    /\ Len(futures) >= 2
    /\ setup_calls = 1
    /\ teardown_calls = 1

====
